---- MODULE Spec2Model ----
(***************************************************************************)
(* Verification model of the libriscv decoder cache and binary translator *)
(* (lib/libriscv/decoder_cache.cpp, decoder_cache.hpp, tr_translate.cpp,  *)
(* tr_emit.cpp).  The module holds several specifications that share one  *)
(* set of variables:                                                      *)
(*   SpecHandlers  the process-wide instruction handler table             *)
(*   SpecDecoder   create_execute_segment / generate_decoder_cache /      *)
(*                 realize_fastsim, one action per loop iteration         *)
(*   SpecLivePatch activate_dylib on a built segment, with a CPU of        *)
(*                 another thread interpreting the segment                 *)
(*   SpecTranslate try_translate (GP scan, block scan), Emitter::emit, and *)
(*                 the execution of the emitted block functions            *)
(* Each specification leaves the variables of the other components at     *)
(* their idle values.                                                     *)
(***************************************************************************)
EXTENDS Integers, Sequences, FiniteSets, TLC

(***************************************************************************)
(* Bounds of the model and program constants.                              *)
(***************************************************************************)

\* Number of distinct handler functions the environment can ask to intern.
NumHandlers == 256

\* Handlers that may arrive in any order before the others arrive in order.
FreeHandlers == 2

\* Number of slots of DecoderData::instr_handlers (slot 0 is the unset slot).
InstrHandlersSize == 256

\* The null function pointer.
NULLH == 0

VARIABLES
    instr_handlers,   \* DecoderData::instr_handlers: slot -> handler or NULLH
    h_ret,            \* outcome of the latest handler_index_for call
    h_hist            \* handler -> index returned by its latest successful call (0: none)

VARIABLES
    cfg,              \* build configuration: compressed_enabled, W, binary translation
    seg,              \* the execute segment: exec_begin, exec_end, exec_data (half-words)
    decoder,          \* the segment's decoder cache: entry index -> DecoderData
    gen,              \* position and locals of generate_decoder_cache
    fs                \* position and locals of realize_fastsim

VARIABLES
    lp,               \* position and locals of activate_dylib
    patched,          \* the patched decoder cache: entry index -> DecoderData
    patched_hist,     \* entry index -> the values the patched entry has held
    reader            \* the interpreting CPU of another thread: its decoder and last dispatch

VARIABLES
    tr,               \* position and locals of try_translate
    em,               \* the Emitter of the block being emitted
    funcs,            \* the emitted block functions
    run,              \* the execution of an emitted block function
    interp            \* the same guest instructions interpreted one by one

VARIABLES
    hs,               \* the two hash computations of load_translation that are compared
    registry,         \* registered_embedded_translations: count and translations
    ld,               \* position and locals of load_translation
    bintr             \* the segment's translation binding: dylib handle, mapping table

VARIABLES
    m_exec,           \* Memory::m_exec: the machine's execute segments, oldest first
    cpu_exec,         \* the CPU's current execute segment (id; 0: the empty segment)
    cr                \* the latest call on the segment list and its outcome

hvars == <<instr_handlers, h_ret, h_hist>>

dvars == <<cfg, seg, decoder, gen, fs>>

lvars == <<lp, patched, patched_hist, reader>>

tvars == <<tr, em, funcs, run, interp>>

rvars == <<hs, registry, ld, bintr>>

VARIABLES
    th,               \* the threads of the process: where each is in the translator, and for which CPU<W>
    dlopen_mutex,     \* load_translation's static dlopen_mutex, one per instantiation: W -> holder (0: free)
    libtcc_mutex      \* compilation_step's static libtcc_mutex, one per instantiation: W -> holder (0: free)

mvars == <<m_exec, cpu_exec, cr>>

cvars == <<th, dlopen_mutex, libtcc_mutex>>

vars == <<instr_handlers, h_ret, h_hist, cfg, seg, decoder, gen, fs,
          lp, patched, patched_hist, reader, tr, em, funcs, run, interp,
          hs, registry, ld, bintr, m_exec, cpu_exec, cr,
         th, dlopen_mutex, libtcc_mutex>>

(***************************************************************************)
(* Generic helpers.                                                        *)
(***************************************************************************)

Min2(a, b) == IF a < b THEN a ELSE b

Max2(a, b) == IF a > b THEN a ELSE b

(***************************************************************************)
(* Handler table: DecoderData<W>::handler_index_for.                       *)
(***************************************************************************)

\* One iteration of the for-loop of handler_index_for stops the loop at slot i
\* when the slot holds the handler or is still null.
HandlerLoopStops(tbl, new_handler, i) ==
    tbl[i] = new_handler \/ tbl[i] = NULLH

\* The first slot in lo..hi at which the loop stops, 0 when it runs through.
\* The range is searched in ascending order, as the loop does; it is split in
\* halves only to keep the evaluation depth logarithmic.
RECURSIVE HandlerLoopFirst(_, _, _, _)
HandlerLoopFirst(tbl, new_handler, lo, hi) ==
    IF lo > hi THEN 0
    ELSE IF lo = hi THEN (IF HandlerLoopStops(tbl, new_handler, lo) THEN lo ELSE 0)
    ELSE LET mid == (lo + hi) \div 2
             left == HandlerLoopFirst(tbl, new_handler, lo, mid)
         IN  IF left # 0 THEN left
             ELSE HandlerLoopFirst(tbl, new_handler, mid + 1, hi)

\* Mutant: a full table does not throw, the new handler takes the last slot.
handler_index_for_reuse_last(tbl, new_handler) ==
    LET size == Len(tbl)
        i == HandlerLoopFirst(tbl, new_handler, 2, size)
    IN  IF i = 0
        THEN [table |-> [tbl EXCEPT ![size] = new_handler], index |-> size - 1, err |-> "none"]
        ELSE IF tbl[i] = new_handler
        THEN [table |-> tbl, index |-> i - 1, err |-> "none"]
        ELSE [table |-> [tbl EXCEPT ![i] = new_handler], index |-> i - 1, err |-> "none"]

\* Mutant: the equality test is dropped, every call takes the first null slot.
handler_index_for_no_lookup(tbl, new_handler) ==
    LET size == Len(tbl)
        free == {i \in 2..size : tbl[i] = NULLH}
    IN  IF free = {}
        THEN [table |-> tbl, index |-> 0, err |-> "MAX_INSTRUCTIONS_REACHED"]
        ELSE LET i == CHOOSE k \in free : \A j \in free : k <= j
             IN  [table |-> [tbl EXCEPT ![i] = new_handler], index |-> i - 1, err |-> "none"]

\* handler_index_for(new_handler) on table tbl.  The table is a sequence whose
\* element k+1 is slot k of instr_handlers.  Returns the table afterwards, the
\* index returned and the exception thrown ("none" when it returns).
handler_index_for(tbl, new_handler) ==
    LET size == Len(tbl)
        i == HandlerLoopFirst(tbl, new_handler, 2, size)
    IN  IF i = 0
        THEN [table |-> tbl, index |-> 0, err |-> "MAX_INSTRUCTIONS_REACHED"]
        ELSE IF tbl[i] = new_handler
        THEN [table |-> tbl, index |-> i - 1, err |-> "none"]
        ELSE [table |-> [tbl EXCEPT ![i] = new_handler], index |-> i - 1, err |-> "none"]

\* The table before any handler is interned: every slot null.
EmptyHandlerTable == [k \in 1..InstrHandlersSize |-> NULLH]

\* Number of handlers interned so far (slots are filled in ascending order).
InternedCount(tbl) == Cardinality({k \in 2..Len(tbl) : tbl[k] # NULLH})

IsInterned(tbl, h) == \E k \in 2..Len(tbl) : tbl[k] = h

\* Handlers the environment may pass next: the first FreeHandlers in any order,
\* then new handlers in ascending order; an already interned handler may be
\* passed again (the free ones, the latest one).
HandlerInputs(tbl) ==
    LET n == InternedCount(tbl)
    IN  {h \in 1..NumHandlers :
            \/ h <= FreeHandlers
            \/ h = n
            \/ h = n + 1 /\ n >= FreeHandlers}

\* Idle values of the decoder-cache variables.
DIdle ==
    /\ cfg = [compressed |-> FALSE, W |-> 4, bintr |-> FALSE]
    /\ seg = [exec_begin |-> 0, exec_end |-> 0, exec_data |-> <<>>, translated |-> FALSE]
    /\ decoder = <<>>
    /\ gen = [stage |-> "idle", dst |-> 0, was_full_instruction |-> TRUE, err |-> "none"]
    /\ fs = [stage |-> "idle", pc |-> 0, last_pc |-> 0, block_pc |-> 0, datalength |-> 0,
             data |-> <<>>, i |-> 0, idxend |-> 0, blocks |-> <<>>]

\* Idle values of the live-patch variables.
LpIdle ==
    [stage |-> "idle", live_patch |-> FALSE, mappings |-> <<>>, handlers |-> <<>>,
     i |-> 0, livepatch_bintr |-> <<>>, k |-> 0, exec_decoder |-> "original",
     err |-> "none", initialized |-> FALSE]

ReaderIdle ==
    [table |-> "original", pc |-> 0, from |-> "none", stale |-> FALSE,
     entry |-> [m_bytecode |-> "BC_INVALID", m_handler |-> 0, idxend |-> 0, icount |-> 0,
                opcode_length |-> 0, instr_count |-> 0, instr |-> <<0, 0>>]]

LIdle ==
    /\ lp = LpIdle
    /\ patched = <<>>
    /\ patched_hist = <<>>
    /\ reader = ReaderIdle

\* The register of the system call number (a7).
REG_ECALL == 17

\* The registers the translated programs use.
RegSet == {0, 1, 3, 5, REG_ECALL}

\* The translator, the emitter, the CPU running emitted code and the
\* interpreter before try_translate is called.
TrIdle ==
    [stage |-> "idle", prog |-> [nops |-> 0, body |-> <<>>], basepc |-> 0,
     endbasepc |-> 0, ignore_instruction_limit |-> FALSE, elf_entry |-> 0,
     translate_instr_max |-> 0, translate_blocks_max |-> 0, gp |-> 0, pc |-> 0,
     icounter |-> 0, global_jump_locations |-> {}, blocks |-> <<>>, b |-> 0]

EmIdle ==
    [stage |-> "idle", basepc |-> 0, endpc |-> 0, jump_locations |-> {}, i |-> 0,
     code |-> <<>>, m_instr_counter |-> 0, labels |-> {}, mapping_labels |-> {},
     mappings |-> <<>>, forward_declared |-> {}]

RunIdle ==
    [stage |-> "idle", regs |-> [r \in RegSet |-> 0], pc |-> 0, frames |-> <<>>,
     executed |-> 0, steps |-> 0,
     ret |-> [valid |-> FALSE, counter |-> 0, max_counter |-> 0, counter_in |-> 0,
              executed |-> 0, depth |-> 0]]

InterpIdle == [stage |-> "idle", regs |-> [r \in RegSet |-> 0], pc |-> 0, pending |-> 0]

\* Idle values of the translator variables.
TIdle ==
    /\ tr = TrIdle
    /\ em = EmIdle
    /\ funcs = <<>>
    /\ run = RunIdle
    /\ interp = InterpIdle

\* Idle values of the translation-loading variables.
HsIdle == [stage |-> "idle"]

RegistryEmpty == [count |-> 0, translations |-> <<>>, err |-> "none"]

NoOptions ==
    [translate_enabled |-> FALSE, translate_enable_embedded |-> FALSE,
     translate_blocks_max |-> 0, cross_compile |-> FALSE]

LdIdle ==
    [stage |-> "idle", caller |-> "none", calls |-> 0, options |-> NoOptions,
     checksum |-> 0, i |-> 0, dylib |-> "NULL", must_compile |-> FALSE,
     filename |-> "unset", ret |-> 0, err |-> "none", bound |-> 0, events |-> <<>>]

\* No translation is bound: no dylib handle, an empty mapping table.  closed
\* counts the calls of dylib_close, writes collects the <<address, mapping
\* index>> pairs that the binding of an embedded translation has stored.
BintrNone ==
    [dylib |-> "NULL", is_libtcc |-> FALSE, mappings |-> <<>>, translation_hash |-> 0,
     closed |-> 0, writes |-> {}]

\* No call on the segment list yet; before holds m_exec as it was when the
\* latest create_execute_segment was called.
CrIdle ==
    [stage |-> "idle", op |-> "none", n |-> 0, err |-> "none", next_id |-> 1,
     before |-> <<>>, cpu_before |-> 0]

MIdle == m_exec = <<>> /\ cpu_exec = 0 /\ cr = CrIdle

NumThreads == 3

Threads == 1 .. NumThreads

\* The instantiations of the build: CPU<4> (RISCV_32I) and CPU<8> (RISCV_64I).
Widths == {4, 8}

\* No thread is in the translator, every mutex is free.
CIdle ==
    /\ th = [t \in Threads |-> [pc |-> "idle", W |-> 0]]
    /\ dlopen_mutex = [w \in Widths |-> 0]
    /\ libtcc_mutex = [w \in Widths |-> 0]

RIdle == hs = HsIdle /\ registry = RegistryEmpty /\ ld = LdIdle /\ bintr = BintrNone

HInit ==
    /\ DIdle
    /\ LIdle
    /\ RIdle
    /\ MIdle
    /\ CIdle
    /\ TIdle
    /\ instr_handlers = EmptyHandlerTable
    /\ h_ret = [handler |-> NULLH, index |-> 0, err |-> "none"]
    /\ h_hist = [h \in 1..NumHandlers |-> 0]

\* A caller (set_insn_handler, the translator's execute callback) interns h.
HandlerIndexFor(h) ==
    LET r == handler_index_for(instr_handlers, h)
    IN  /\ instr_handlers' = r.table
        /\ h_ret' = [handler |-> h, index |-> r.index, err |-> r.err]
        /\ h_hist' = IF r.err = "none" THEN [h_hist EXCEPT ![h] = r.index] ELSE h_hist
        /\ UNCHANGED <<dvars, lvars, rvars, tvars, mvars, cvars>>

HNext == \E h \in HandlerInputs(instr_handlers) : HandlerIndexFor(h)

SpecHandlers == HInit /\ [][HNext]_vars

(***************************************************************************)
(* Instruction words and the instruction reader.                           *)
(***************************************************************************)

\* A 32-bit instruction word is the pair <<low half-word, high half-word>>,
\* as in UnalignedLoad32::data.  A 16-bit read has a zero high half.

PageSize == 4096

RV32I_LOAD == 3
RV32I_OP_IMM == 19
RV32I_AUIPC == 23
RV32I_STORE == 35
RV32I_OP == 51
RV32I_LUI == 55
RV32I_BRANCH == 99
RV32I_JALR == 103
RV32I_JAL == 111
RV32I_SYSTEM == 115

FASTSIM_BLOCK_END == <<65535, 0>>

\* DecoderCache<W>::DIVISOR
DIVISOR(c) == IF c.compressed THEN 2 ELSE 4

\* The half-word of the execute segment at address pc.  The bytes of the
\* segment's pages before exec_begin and after exec_end are zero
\* (create_execute_segment's memsets).
HalfAt(s, pc) ==
    LET k == (pc - s.exec_begin) \div 2 + 1
    IN  IF pc >= s.exec_begin /\ k <= Len(s.exec_data) THEN s.exec_data[k] ELSE 0

read_instruction(s, pc, end_pc) ==
    IF pc + 4 <= end_pc
    THEN <<HalfAt(s, pc), HalfAt(s, pc + 2)>>
    ELSE <<HalfAt(s, pc), 0>>

\* rv32i_instruction::opcode(): the low seven bits.
Opcode(insn) == insn[1] % 128

\* rv32i_instruction::length(): 4 when the two low bits are 11, else 2.
InstrLength(insn) == IF insn[1] % 4 = 3 THEN 4 ELSE 2

\* rv32c_instruction::opcode(): funct3 (bits 15..13) and the two low bits.
CI_CODE(x, y) == x * 8192 + y

CiOpcode(half) == (half \div 8192) * 8192 + (half % 4)

\* rv32c_instruction CR format: rs2 in bits 6..2, rd in bits 11..7.
CR_rd(half) == (half \div 128) % 32

CR_rs2(half) == (half \div 4) % 32

is_regular_compressed(W, half) ==
    LET op == CiOpcode(half)
        topbit == (half \div 4096) % 2 = 1
    IN  IF op = CI_CODE(1, 1) THEN W >= 8
        ELSE IF op \in {CI_CODE(5, 1), CI_CODE(6, 1), CI_CODE(7, 1)} THEN FALSE
        ELSE IF op = CI_CODE(4, 2)
        THEN IF ~topbit /\ CR_rd(half) # 0 /\ CR_rs2(half) = 0 THEN FALSE
             ELSE IF topbit /\ CR_rd(half) # 0 /\ CR_rs2(half) = 0 THEN FALSE
             ELSE TRUE
        ELSE TRUE

overflow_checked_instr_count(count) == IF count > 255 THEN 255 ELSE count

\* CPU<W>::decode(instruction).handler: the decoder is a pure function of the
\* instruction bits; one handler per 32-bit opcode and per compressed opcode.
DecodeHandler(insn) ==
    IF insn[1] % 4 = 3 THEN 1 + Opcode(insn)
    ELSE 129 + (insn[1] \div 8192) * 4 + (insn[1] % 4)

\* CPU<W>::computed_index_for(instruction): the bytecode of the threaded
\* simulator; the all-zero word is the invalid opcode.
computed_index_for(insn) ==
    IF insn = <<0, 0>> THEN "BC_INVALID" ELSE "BC_FUNCTION"

(***************************************************************************)
(* Decoder cache: DecoderData and generate_decoder_cache.                  *)
(***************************************************************************)

\* A value-initialised DecoderData (DecoderCache::cache = {}).
FreshEntry ==
    [m_bytecode |-> "BC_INVALID", m_handler |-> 0, idxend |-> 0, icount |-> 0,
     opcode_length |-> 0, instr_count |-> 0, instr |-> <<0, 0>>]

\* DecoderData::isset
isset(entry) == entry.m_handler # 0

\* The idxend bit-field: 8 bits with the C extension, 16 bits without.
IdxendField(c, v) == IF c.compressed THEN v % 256 ELSE v % 65536

\* DecoderData::block_bytes
block_bytes(c, entry) == entry.idxend * (IF c.compressed THEN 2 ELSE 4)

\* Index of the decoder entry of address pc (exec_decoder[pc / DIVISOR]).
EntryIndex(c, pc) == pc \div DIVISOR(c)

\* Entry indices the model keeps: those of the segment's addresses and of the
\* padding right after it.
EntryIndices(c, s) ==
    EntryIndex(c, s.exec_begin) .. (EntryIndex(c, s.exec_end + 3) + 1)

\* new DecoderCache<W>[n_pages]
FreshDecoder(c, s) == [k \in EntryIndices(c, s) |-> FreshEntry]

GenLocals(s) ==
    [stage |-> "decode", dst |-> s.exec_begin, was_full_instruction |-> TRUE,
     err |-> "none"]

\* create_execute_segment up to the first statement of generate_decoder_cache's
\* decode loop: the page count is checked and a fresh decoder cache is made.
GenStart ==
    /\ gen.stage = "start"
    /\ LET prelen == seg.exec_begin % PageSize
           midlen == (seg.exec_end - seg.exec_begin) + prelen
           plen == ((midlen + PageSize - 1) \div PageSize) * PageSize
           n_pages == plen \div PageSize
       IN  IF n_pages = 0
           THEN /\ gen' = [gen EXCEPT !.stage = "throw", !.err = "INVALID_PROGRAM"]
                /\ UNCHANGED decoder
           ELSE /\ decoder' = FreshDecoder(cfg, seg)
                /\ gen' = IF cfg.bintr /\ ~seg.translated
                          THEN [GenLocals(seg) EXCEPT !.stage = "translate"]
                          ELSE GenLocals(seg)
    /\ UNCHANGED <<cfg, seg, fs, hvars, lvars, rvars, tvars, mvars, cvars>>

\* was_full_instruction after one decode-loop iteration.
NextWasFull(was_full, insn) == IF was_full THEN InstrLength(insn) = 2 ELSE TRUE

\* Mutant: the decode loop leaves the handler of the entry unset.
DecodedEntry_no_handler(entry, insn, index) ==
    [entry EXCEPT !.m_bytecode = computed_index_for(insn), !.instr = insn]

\* The decoder entry after set_handler, set_bytecode and the store of the
\* instruction bits (the rewriter is disabled: rewritten = instruction).
DecodedEntry(entry, insn, index) ==
    [entry EXCEPT !.m_handler = index % 256,
                  !.m_bytecode = computed_index_for(insn),
                  !.instr = insn]

\* One iteration of the decode loop of generate_decoder_cache.
GenDecodeStep ==
    /\ gen.stage = "decode"
    /\ gen.dst < seg.exec_end
    /\ LET k == EntryIndex(cfg, gen.dst)
           entry == [decoder[k] EXCEPT !.instr = <<0, 0>>, !.idxend = 0]
           instruction == read_instruction(seg, gen.dst, seg.exec_end)
       IN  IF cfg.bintr /\ seg.translated /\ isset(entry)
           THEN /\ decoder' = [decoder EXCEPT ![k] = [entry EXCEPT !.instr = FASTSIM_BLOCK_END]]
                /\ gen' = [gen EXCEPT !.dst = gen.dst + 4]
                /\ UNCHANGED instr_handlers
           ELSE LET r == handler_index_for(instr_handlers, DecodeHandler(instruction))
                IN  IF r.err # "none"
                    THEN /\ decoder' = [decoder EXCEPT ![k] = entry]
                         /\ gen' = [gen EXCEPT !.stage = "throw", !.err = r.err]
                         /\ UNCHANGED instr_handlers
                    ELSE /\ decoder' = [decoder EXCEPT ![k] = DecodedEntry(entry, instruction, r.index)]
                         /\ instr_handlers' = r.table
                         /\ gen' = [gen EXCEPT
                                !.dst = gen.dst + DIVISOR(cfg),
                                !.was_full_instruction =
                                    IF cfg.compressed
                                    THEN NextWasFull(gen.was_full_instruction, instruction)
                                    ELSE gen.was_full_instruction]
    /\ UNCHANGED <<cfg, seg, fs, h_ret, h_hist, lvars, rvars, tvars, mvars, cvars>>

(***************************************************************************)
(* realize_fastsim.                                                        *)
(***************************************************************************)

\* Locals of realize_fastsim; blocks is a history of the entry lists (data)
\* of the blocks finished so far, each entry named by its address.
FsIdle ==
    [stage |-> "idle", pc |-> 0, last_pc |-> 0, block_pc |-> 0, datalength |-> 0,
     data |-> <<>>, i |-> 0, idxend |-> 0, blocks |-> <<>>]

\* The 32-bit opcodes that end a block, and the block-end sentinel.
IsBlockEnd32(insn, entry) ==
    \/ Opcode(insn) \in {RV32I_BRANCH, RV32I_SYSTEM, RV32I_JAL, RV32I_JALR, RV32I_AUIPC}
    \/ entry.instr = FASTSIM_BLOCK_END

\* The outer loop test of the compressed variant: a new block, or the end.
FsNextBlock(f, pc) ==
    IF pc < f.last_pc
    THEN [f EXCEPT !.stage = "measure", !.pc = pc, !.block_pc = pc,
                   !.datalength = 0, !.data = <<>>, !.i = 0]
    ELSE [f EXCEPT !.stage = "done", !.pc = pc, !.data = <<>>]

\* The test pc >= base_pc of the backward walk after pc = from - 4, computed
\* on the unsigned address_type: below 4 the subtraction wraps to the top of
\* the address space and the test is true.  A wrapped pc is held as the
\* negative number from - 4.
WalkStage(s, from) ==
    IF from < 4 THEN "wild"
    ELSE IF from - 4 >= s.exec_begin THEN "walk" ELSE "done"

\* The decode loop has ended: realize_fastsim(addr, dst, ...) is entered.
GenCallFastsim ==
    /\ gen.stage = "decode"
    /\ gen.dst >= seg.exec_end
    /\ gen' = [gen EXCEPT !.stage = "fastsim"]
    /\ fs' = IF cfg.compressed
             THEN FsNextBlock([FsIdle EXCEPT !.last_pc = gen.dst], seg.exec_begin)
             ELSE [FsIdle EXCEPT !.stage = WalkStage(seg, gen.dst),
                                 !.last_pc = gen.dst, !.pc = gen.dst - 4]
    /\ UNCHANGED <<cfg, seg, decoder, hvars, lvars, rvars, tvars, mvars, cvars>>

\* Compressed variant, one iteration of the inner while loop: the entry of pc
\* is recorded and pc advances by the instruction's length.
FsMeasureStep ==
    /\ gen.stage = "fastsim"
    /\ fs.stage = "measure"
    /\ LET entry == decoder[EntryIndex(cfg, fs.pc)]
           instruction == read_instruction(seg, fs.pc, fs.last_pc)
           length == InstrLength(instruction)
           pc2 == fs.pc + length
           stop == IF length = 2
                   THEN ~is_regular_compressed(cfg.W, instruction[1])
                   ELSE IsBlockEnd32(instruction, entry)
       IN  fs' = [fs EXCEPT !.data = Append(fs.data, fs.pc),
                            !.pc = pc2,
                            !.datalength = fs.datalength + (length \div 2),
                            !.stage = IF stop \/ ~(pc2 < fs.last_pc) THEN "fill" ELSE "measure"]
    /\ UNCHANGED <<cfg, seg, decoder, gen, hvars, lvars, rvars, tvars, mvars, cvars>>

\* Mutant: the filled entry stores the number of entries left in the block.
FilledEntry_count_entries(entry, datalength, length, left) ==
    [entry EXCEPT !.idxend = datalength % 256,
                  !.opcode_length = length,
                  !.instr_count = overflow_checked_instr_count(left)]

\* The entry data[i] after the fill loop's three stores; left = data.size() - i.
\* idxend is the 8-bit field of the compressed DecoderData.
FilledEntry(entry, datalength, length, left) ==
    [entry EXCEPT !.idxend = datalength % 256,
                  !.opcode_length = length,
                  !.instr_count = overflow_checked_instr_count(datalength - left)]

\* Compressed variant, one iteration of the for loop over data.
FsFillStep ==
    /\ gen.stage = "fastsim"
    /\ fs.stage = "fill"
    /\ fs.i < Len(fs.data)
    /\ LET instruction == read_instruction(seg, fs.block_pc, fs.last_pc)
           length == InstrLength(instruction)
           k == EntryIndex(cfg, fs.data[fs.i + 1])
           f2 == [fs EXCEPT !.block_pc = fs.block_pc + length,
                            !.datalength = fs.datalength - (length \div 2),
                            !.i = fs.i + 1]
       IN  /\ decoder' = [decoder EXCEPT ![k] =
                    FilledEntry(decoder[k], fs.datalength, length, Len(fs.data) - fs.i)]
           /\ fs' = IF fs.i + 1 < Len(fs.data) THEN f2
                    ELSE FsNextBlock([f2 EXCEPT !.blocks = Append(fs.blocks, fs.data)], fs.pc)
    /\ UNCHANGED <<cfg, seg, gen, hvars, lvars, rvars, tvars, mvars, cvars>>

\* Mutant: the backward walk never resets the distance.
WalkIdxend_no_reset(idxend, insn, entry) == idxend

\* The distance stored by the backward walk: reset at a block end.
WalkIdxend(idxend, insn, entry) == IF IsBlockEnd32(insn, entry) THEN 0 ELSE idxend

\* Non-compressed variant, one iteration of the backward while loop.
FsWalkStep ==
    /\ gen.stage = "fastsim"
    /\ fs.stage = "walk"
    /\ fs.pc >= seg.exec_begin
    /\ LET instruction == read_instruction(seg, fs.pc, fs.last_pc)
           k == EntryIndex(cfg, fs.pc)
           idxend == WalkIdxend(fs.idxend, instruction, decoder[k])
       IN  /\ decoder' = [decoder EXCEPT ![k].idxend = IdxendField(cfg, idxend)]
           /\ fs' = [fs EXCEPT !.idxend = idxend + 1,
                               !.pc = fs.pc - 4,
                               !.stage = WalkStage(seg, fs.pc)]
    /\ UNCHANGED <<cfg, seg, gen, hvars, lvars, rvars, tvars, mvars, cvars>>

WildSpan == 3

\* One iteration of the backward while loop after pc has wrapped: the entry
\* exec_decoder[pc / DIVISOR] lies outside the decoder array (and the
\* instruction outside the segment), which is undefined behaviour: the access
\* faults, or the loop goes on downwards from the top of the address space
\* (followed for WildSpan iterations).
FsWildStep ==
    /\ gen.stage = "fastsim"
    /\ fs.stage = "wild"
    /\ \E faults \in BOOLEAN :
          fs' = IF faults THEN [fs EXCEPT !.stage = "fault"]
                ELSE IF fs.pc - 4 >= -(4 * WildSpan) THEN [fs EXCEPT !.pc = fs.pc - 4]
                ELSE fs
    /\ UNCHANGED <<cfg, seg, decoder, gen, hvars, lvars, rvars, tvars, mvars, cvars>>

\* realize_fastsim and generate_decoder_cache return.
GenReturn ==
    /\ gen.stage = "fastsim"
    /\ fs.stage = "done"
    /\ gen' = [gen EXCEPT !.stage = "done"]
    /\ UNCHANGED <<cfg, seg, decoder, fs, hvars, lvars, rvars, tvars, mvars, cvars>>

(***************************************************************************)
(* SpecDecoder: create_execute_segment / generate_decoder_cache on a fresh *)
(* execute segment.                                                        *)
(***************************************************************************)

MaxSegHalfs == 3

LongRun == 255

LongWords == 256

\* Half-words the short segments are made of:
\* 0x0000 (invalid), 0x0001 (C.NOP), 0x2001 (C.JAL on RV32, C.ADDIW on RV64),
\* 0x8082 (C.JR ra), 0x0013 (low half of ADDI), 0x0063 (low half of BEQ),
\* 0xFFFF (low half of the block-end sentinel).
SegHalfs == {0, 1, 8193, 32898, 19, 99, 65535}

RECURSIVE SeqsOf(_, _)
SeqsOf(S, n) ==
    IF n = 0 THEN {<<>>}
    ELSE LET shorter == SeqsOf(S, n - 1)
         IN  shorter \cup {Append(q, x) : q \in {r \in shorter : Len(r) = n - 1}, x \in S}

\* A run of LongRun C.NOPs ended by C.JR ra.
LongNopData == [k \in 1..(LongRun + 1) |-> IF k <= LongRun THEN 1 ELSE 32898]

\* A run of LongWords 32-bit ADDI x0, x0, 0.
LongAddiData == [k \in 1..(2 * LongWords) |-> IF k % 2 = 1 THEN 19 ELSE 0]

\* ADDI, ADDI, BEQ, ADDI; and C.NOP, ADDI, C.NOP, C.JR ra, C.NOP.
MixedDatas == {<<19, 0, 19, 0, 99, 0, 19, 0>>, <<1, 19, 0, 1, 32898, 1>>}

SegDatas == SeqsOf(SegHalfs, MaxSegHalfs) \cup MixedDatas \cup {LongNopData, LongAddiData}

BasePCs == {4096, 4100}

Configs ==
    {[compressed |-> c, W |-> w, bintr |-> FALSE] :
        c \in BOOLEAN, w \in {4, 8}}

Segments ==
    {[exec_begin |-> b, exec_end |-> b + 2 * Len(d), exec_data |-> d, translated |-> FALSE] :
        b \in BasePCs, d \in SegDatas}

\* A handler table another machine of the process has filled.
FullHandlerTable == [k \in 1..InstrHandlersSize |-> IF k = 1 THEN NULLH ELSE 1000 + k]

DInit ==
    /\ cfg \in Configs
    /\ seg \in Segments
    /\ decoder = <<>>
    /\ gen = [stage |-> "start", dst |-> 0, was_full_instruction |-> TRUE, err |-> "none"]
    /\ fs = FsIdle
    /\ LIdle
    /\ RIdle
    /\ MIdle
    /\ CIdle
    /\ TIdle
    /\ instr_handlers \in {EmptyHandlerTable, FullHandlerTable}
    /\ h_ret = [handler |-> NULLH, index |-> 0, err |-> "none"]
    /\ h_hist = [h \in 1..NumHandlers |-> 0]

DNext ==
    \/ GenStart
    \/ GenDecodeStep
    \/ GenCallFastsim
    \/ FsMeasureStep
    \/ FsFillStep
    \/ FsWalkStep
    \/ GenReturn

SpecDecoder == DInit /\ [][DNext]_vars

(***************************************************************************)
(* Live patching: CPU::activate_dylib.                                     *)
(***************************************************************************)

MaxMappings == 2

\* DecodedExecuteSegment::is_within
is_within(s, addr) == addr >= s.exec_begin /\ addr < s.exec_end

\* Addresses of the decoder entries of the segment.
EntryAddrs(c, s) ==
    {a \in s.exec_begin .. (s.exec_end - 1) : (a - s.exec_begin) % DIVISOR(c) = 0}

\* The mapping tables a translation can export for the segment: up to
\* MaxMappings distinct addresses in any order, each with its own handler;
\* one address may lie right after the segment, the first handler may be null.
MappingInputs(c, s) ==
    {[mappings |-> [j \in 1..Len(q) |-> [addr |-> q[j], mapping_index |-> j - 1]],
      handlers |-> [j \in 1..Len(q) |-> IF j = 1 /\ null_first THEN NULLH ELSE j]] :
        q \in {r \in SeqsOf(EntryAddrs(c, s) \cup {s.exec_end}, MaxMappings) :
                  \A i, j \in 1..Len(r) : r[i] = r[j] => i = j},
        null_first \in BOOLEAN}

\* The catch-all mapping that create_mappings(unique_mappings + 1) makes room
\* for: it throws INVALID_PROGRAM when called.
TRAP_MAPPING == 999

\* DecodedExecuteSegment::is_binary_translated: the mapping table is not empty.
is_binary_translated(b) == Len(b.mappings) > 0

\* DecodedExecuteSegment::set_binary_translated(dl, is_libtcc).
set_binary_translated(b, dl, is_libtcc) == [b EXCEPT !.dylib = dl, !.is_libtcc = is_libtcc]

\* Mutant: the failed activation keeps the dylib open and bound.
ActivationFailed_keeps_dylib(b, dylib) == set_binary_translated(b, dylib, FALSE)

\* activate_dylib when initialize_translated_segment returns false, or when
\* the mappings are invalid: dylib_close(dylib), set_binary_translated(nullptr, false).
ActivationFailed(b, dylib) ==
    set_binary_translated([b EXCEPT !.closed = IF dylib # "NULL" THEN @ + 1 ELSE @],
                          "NULL", FALSE)

\* Who calls activate_dylib: load_translation (ld.stage = "activate"), the
\* synchronous compilation step of try_translate during the construction of
\* the segment (gen.stage = "compile"), or, once the segment is constructed,
\* the compilation step of a segment that was constructed without a call of
\* load_translation.
LpCalledBy ==
    IF ld.stage = "activate" THEN "load_translation"
    ELSE IF gen.stage = "compile" THEN "try_translate"
    ELSE IF gen.stage = "done" /\ ld.stage = "idle"
    THEN "compilation_step"
    ELSE "none"

\* live_patch = options.translate_background_callback != nullptr in the
\* compilation step; load_translation passes false.
LpLivePatch == IF LpCalledBy = "load_translation" THEN {FALSE} ELSE
               IF LpCalledBy = "try_translate" THEN {FALSE} ELSE BOOLEAN

\* activate_dylib up to the mapping loop.  init_ok: the dylib has its init
\* function; valid: it exports a mappings table of a sane size.
LpBegin ==
    /\ LpCalledBy # "none"
    /\ lp.stage = "idle"
    /\ \E init_ok \in BOOLEAN, valid \in BOOLEAN, live \in LpLivePatch,
          m \in MappingInputs(cfg, seg) :
        IF ~init_ok
        THEN /\ lp' = [lp EXCEPT !.stage = "done"]
             /\ bintr' = ActivationFailed(bintr, "dylib")
             /\ seg' = [seg EXCEPT !.translated = is_binary_translated(bintr')]
             /\ UNCHANGED <<patched, patched_hist>>
        ELSE IF ~valid
        THEN /\ lp' = [lp EXCEPT !.stage = "throw", !.err = "INVALID_PROGRAM",
                                 !.initialized = TRUE]
             /\ bintr' = ActivationFailed(bintr, "dylib")
             /\ seg' = [seg EXCEPT !.translated = is_binary_translated(bintr')]
             /\ UNCHANGED <<patched, patched_hist>>
        ELSE /\ lp' = [lp EXCEPT !.stage = "map", !.live_patch = live,
                                 !.mappings = m.mappings, !.handlers = m.handlers,
                                 !.initialized = TRUE]
             /\ bintr' = [set_binary_translated(bintr, "dylib", FALSE) EXCEPT
                             !.mappings = m.handlers \o <<TRAP_MAPPING>>]
             /\ seg' = [seg EXCEPT !.translated = is_binary_translated(bintr')]
             /\ patched' = IF live THEN decoder ELSE patched
             /\ patched_hist' = IF live
                                THEN [k \in DOMAIN decoder |-> {FreshEntry, decoder[k]}]
                                ELSE patched_hist
    /\ UNCHANGED <<cfg, decoder, gen, fs, reader, hvars, tvars, hs, registry, ld, mvars, cvars>>

\* The backward walk that looks for the beginning of the block: the entry
\* index the while loop stops at.
RECURSIVE LpBlockBegin(_, _, _, _, _)
LpBlockBegin(c, tbl, current, decoder_begin, last_block_bytes) ==
    IF current > decoder_begin /\ block_bytes(c, tbl[current - 1]) > last_block_bytes
    THEN LpBlockBegin(c, tbl, current - 1, decoder_begin, block_bytes(c, tbl[current - 1]))
    ELSE current

\* The patched table after steps 4 and 5 for one mapping: the entries
\* current..last-1 get the distance to last, the entry last becomes the
\* translator entry.
LpPatchedTable(c, tbl, current, last, mapping_index) ==
    [k \in DOMAIN tbl |->
        IF k >= current /\ k < last
        THEN [tbl[k] EXCEPT !.idxend = IdxendField(c, last - k),
                            !.icount = IF c.compressed THEN 0 ELSE @]
        ELSE IF k = last
        THEN [tbl[k] EXCEPT !.m_bytecode = "BC_TRANSLATOR",
                            !.instr = <<mapping_index, 0>>,
                            !.idxend = 0,
                            !.icount = IF c.compressed THEN 0 ELSE @]
        ELSE tbl[k]]

\* One iteration of the mapping loop.
LpMapStep ==
    /\ lp.stage = "map"
    /\ lp.i < Len(lp.mappings)
    /\ LET mp == lp.mappings[lp.i + 1]
           addr == mp.addr
           handler == lp.handlers[mp.mapping_index + 1]
           last == EntryIndex(cfg, addr)
           next == [lp EXCEPT !.i = lp.i + 1]
       IN  IF ~is_within(seg, addr)
           THEN /\ lp' = next
                /\ UNCHANGED <<decoder, patched, patched_hist>>
           ELSE IF handler = NULLH
           THEN /\ decoder' = [decoder EXCEPT ![last].m_bytecode = "BC_INVALID"]
                /\ lp' = next
                /\ UNCHANGED <<patched, patched_hist>>
           ELSE IF ~lp.live_patch
           THEN /\ decoder' = [decoder EXCEPT ![last].instr = <<mp.mapping_index, 0>>,
                                              ![last].m_bytecode = "BC_BLOCK_END"]
                /\ lp' = next
                /\ UNCHANGED <<patched, patched_hist>>
           ELSE LET decoder_begin == EntryIndex(cfg, seg.exec_begin)
                    current == LpBlockBegin(cfg, patched, last, decoder_begin,
                                            block_bytes(cfg, patched[last]))
                    block_begin_addr == addr - DIVISOR(cfg) * (last - current)
                    tbl == LpPatchedTable(cfg, patched, current, last, mp.mapping_index)
                IN  IF block_begin_addr < seg.exec_begin \/ block_begin_addr >= seg.exec_end
                    THEN /\ lp' = [lp EXCEPT !.stage = "throw", !.err = "INVALID_PROGRAM"]
                         /\ UNCHANGED <<decoder, patched, patched_hist>>
                    ELSE /\ patched' = tbl
                         /\ patched_hist' = [k \in DOMAIN tbl |-> patched_hist[k] \cup {tbl[k]}]
                         /\ lp' = [next EXCEPT !.livepatch_bintr = Append(lp.livepatch_bintr, last)]
                         /\ UNCHANGED decoder
    /\ UNCHANGED <<cfg, seg, gen, fs, reader, hvars, rvars, tvars, mvars, cvars>>

\* After the mapping loop of a live patch: the patched cache is moved into the
\* segment, becomes its decoder, and the fence is passed.
LpPublish ==
    /\ lp.stage = "map"
    /\ lp.i = Len(lp.mappings)
    /\ lp.live_patch
    /\ lp' = [lp EXCEPT !.stage = "store", !.k = 0, !.exec_decoder = "patched"]
    /\ UNCHANGED <<cfg, seg, decoder, gen, fs, patched, patched_hist, reader, hvars, rvars, tvars, mvars, cvars>>

\* One iteration of the loop over livepatch_bintr: a plain (non-atomic) store
\* of the bytecode of an entry of the original decoder cache.
LpStoreStep ==
    /\ lp.stage = "store"
    /\ lp.k < Len(lp.livepatch_bintr)
    /\ decoder' = [decoder EXCEPT ![lp.livepatch_bintr[lp.k + 1]].m_bytecode = "BC_LIVEPATCH"]
    /\ lp' = [lp EXCEPT !.k = lp.k + 1]
    /\ UNCHANGED <<cfg, seg, gen, fs, patched, patched_hist, reader, hvars, rvars, tvars, mvars, cvars>>

\* activate_dylib returns.
LpReturn ==
    /\ \/ lp.stage = "store" /\ lp.k = Len(lp.livepatch_bintr)
       \/ lp.stage = "map" /\ lp.i = Len(lp.mappings) /\ ~lp.live_patch
    /\ lp' = [lp EXCEPT !.stage = "done"]
    /\ UNCHANGED <<cfg, seg, decoder, gen, fs, patched, patched_hist, reader, hvars, rvars, tvars, mvars, cvars>>

(***************************************************************************)
(* The interpreting CPU of another thread.  It dispatches on the bytecode  *)
(* of the decoder entry of its PC (DecoderData::get_bytecode, a plain      *)
(* load); BC_LIVEPATCH makes it swap its decoder for the patched one and   *)
(* dispatch again from there.                                              *)
(***************************************************************************)

\* The values a load of patched entry k can return.  The loads of the
\* interpreter and the stores of activate_dylib are plain accesses of the
\* same objects by two threads with nothing that orders them for the reader
\* (a data race): a load returns the present value or any value the entry
\* has held.
PatchedLoads(k) == patched_hist[k]

\* One dispatch of the interpreting CPU at address p.
ReaderDispatch(p) ==
    /\ gen.stage = "done"
    /\ lp.stage \in {"idle", "done", "throw"} \/ lp.live_patch
    /\ LET k == EntryIndex(cfg, p)
           e == decoder[k]
       IN  IF reader.table = "original" /\ e.m_bytecode # "BC_LIVEPATCH"
           THEN reader' = [reader EXCEPT !.pc = p, !.from = "original",
                                         !.entry = e, !.stale = FALSE]
           ELSE \E v \in PatchedLoads(k) :
                    reader' = [table |-> "patched", pc |-> p, from |-> "patched",
                               entry |-> v, stale |-> v # patched[k]]
    /\ UNCHANGED <<cfg, seg, decoder, gen, fs, lp, patched, patched_hist, hvars, rvars, tvars, mvars, cvars>>

(***************************************************************************)
(* SpecLivePatch: a segment is built and then live-patched while a CPU of  *)
(* another thread interprets it.                                           *)
(***************************************************************************)

LInit ==
    /\ cfg \in Configs
    /\ seg \in {s \in Segments : s.exec_data \in MixedDatas /\ s.exec_begin = 4096}
    /\ decoder = <<>>
    /\ gen = [stage |-> "start", dst |-> 0, was_full_instruction |-> TRUE, err |-> "none"]
    /\ fs = FsIdle
    /\ LIdle
    /\ RIdle
    /\ MIdle
    /\ CIdle
    /\ TIdle
    /\ instr_handlers = EmptyHandlerTable
    /\ h_ret = [handler |-> NULLH, index |-> 0, err |-> "none"]
    /\ h_hist = [h \in 1..NumHandlers |-> 0]

LNext ==
    \/ DNext
    \/ LpBegin
    \/ LpMapStep
    \/ LpPublish
    \/ LpStoreStep
    \/ LpReturn
    \/ \E p \in EntryAddrs(cfg, seg) : ReaderDispatch(p)

SpecLivePatch == LInit /\ [][LNext]_vars

(***************************************************************************)
(* Binary translation: CPU<W>::try_translate.  The segment is held as its  *)
(* decoded 32-bit instructions (no C extension): a run of NOPs followed by *)
(* a body; the instruction of address pc is the one read_instruction      *)
(* returns there, as the fields the translator and the emitter read.      *)
(***************************************************************************)

ITS_TIME_TO_SPLIT == 1250

Instr(op, rd, rs1, rs2, funct3, imm) ==
    [op |-> op, rd |-> rd, rs1 |-> rs1, rs2 |-> rs2, funct3 |-> funct3, imm |-> imm]

ADDI(rd, rs1, imm) == Instr(RV32I_OP_IMM, rd, rs1, 0, 0, imm)
AUIPC(rd, imm) == Instr(RV32I_AUIPC, rd, 0, 0, 0, imm)
BEQ(rs1, rs2, offset) == Instr(RV32I_BRANCH, 0, rs1, rs2, 0, offset)
BNE(rs1, rs2, offset) == Instr(RV32I_BRANCH, 0, rs1, rs2, 1, offset)
JAL(rd, offset) == Instr(RV32I_JAL, rd, 0, 0, 0, offset)
JALR(rd, rs1, imm) == Instr(RV32I_JALR, rd, rs1, 0, 0, imm)
ECALL == Instr(RV32I_SYSTEM, 0, 0, 0, 0, 0)
WFI == Instr(RV32I_SYSTEM, 0, 0, 0, 0, 261)
NOP == ADDI(0, 0, 0)
\* The all-zero word read past the last instruction of the segment.
ZeroInstr == Instr(0, 0, 0, 0, 0, 0)

ProgLen(P) == P.nops + Len(P.body)

\* The instruction of index i of program P (index 0 is at basepc).
InstrAt(P, i) ==
    IF i < 0 \/ i >= ProgLen(P) THEN ZeroInstr
    ELSE IF i < P.nops THEN NOP
    ELSE P.body[i - P.nops + 1]

PcOf(t, i) == t.basepc + 4 * i
IdxOf(t, pc) == (pc - t.basepc) \div 4
InstrAtPc(t, pc) == InstrAt(t.prog, IdxOf(t, pc))

MinOf(S) == CHOOSE x \in S : \A y \in S : x <= y

is_stopping_instruction(instr) ==
    \/ instr.op = RV32I_JALR
    \/ instr.op = RV32I_SYSTEM /\ instr.funct3 = 0 /\ instr.imm = 2047
    \/ instr.op = RV32I_SYSTEM /\ instr.funct3 = 0 /\ instr.imm = 261

\* The GP scan stops at index i: AUIPC to x3 that is followed by ADDI x3,x3
\* or by anything but an ADDI.
GpScanStops(t, i) ==
    LET auipc == InstrAt(t.prog, i)
        addi == InstrAt(t.prog, i + 1)
    IN  /\ auipc.op = RV32I_AUIPC
        /\ auipc.rd = 3
        /\ IF addi.op = RV32I_OP_IMM /\ addi.funct3 = 0
           THEN addi.rd = 3 /\ addi.rs1 = 3
           ELSE TRUE

\* The gp constant the scan of [basepc, endbasepc) finds, 0 when none.
ScanForGp(t) ==
    LET hits == {i \in 0 .. (ProgLen(t.prog) - 1) : GpScanStops(t, i)}
    IN  IF hits = {} THEN 0
        ELSE LET i == MinOf(hits)
                 auipc == InstrAt(t.prog, i)
                 addi == InstrAt(t.prog, i + 1)
             IN  IF addi.op = RV32I_OP_IMM /\ addi.funct3 = 0
                 THEN PcOf(t, i) + auipc.imm + addi.imm
                 ELSE PcOf(t, i) + auipc.imm

\* try_translate up to the block loop: the GP scan and the ELF entry point as
\* the first global jump location.
TrScanGp ==
    /\ tr.stage = "start"
    /\ tr' = [tr EXCEPT !.stage = "blocks",
                        !.gp = ScanForGp(tr),
                        !.pc = tr.basepc,
                        !.global_jump_locations =
                            IF tr.elf_entry >= tr.basepc /\ tr.elf_entry < tr.endbasepc
                            THEN {tr.elf_entry} ELSE {}]
    /\ UNCHANGED <<em, funcs, run, interp, hvars, dvars, lvars, rvars, mvars, cvars>>

\* The end of the block that starts at address block: after the first
\* stopping instruction once ITS_TIME_TO_SPLIT instructions were seen.
BlockEndPc(t, block) ==
    LET s == IdxOf(t, block)
        n == ProgLen(t.prog)
        stops == {j \in s .. (n - 1) :
                     /\ j - s + 1 >= ITS_TIME_TO_SPLIT
                     /\ is_stopping_instruction(InstrAt(t.prog, j))}
    IN  IF stops = {} THEN t.endbasepc ELSE PcOf(t, MinOf(stops) + 1)

\* Targets of the JALs / of the branches of [block, block_end).
JalLocations(t, block, block_end) ==
    {PcOf(t, j) + InstrAt(t.prog, j).imm :
        j \in {k \in IdxOf(t, block) .. (IdxOf(t, block_end) - 1) :
                  InstrAt(t.prog, k).op = RV32I_JAL}}

BranchLocations(t, block, block_end) ==
    {PcOf(t, j) + InstrAt(t.prog, j).imm :
        j \in {k \in IdxOf(t, block) .. (IdxOf(t, block_end) - 1) :
                  InstrAt(t.prog, k).op = RV32I_BRANCH}}

\* One iteration of the block loop.
TrBlock ==
    /\ tr.stage = "blocks"
    /\ tr.pc < tr.endbasepc
    /\ tr.icounter < tr.translate_instr_max
    /\ LET block == tr.pc
           block_end == BlockEndPc(tr, block)
           jals == JalLocations(tr, block, block_end)
           jump_locations ==
               {l \in jals \cup BranchLocations(tr, block, block_end) :
                   l >= block /\ l < block_end}
           length == IdxOf(tr, block_end) - IdxOf(tr, block)
           push == length > 0 /\ tr.icounter + length < tr.translate_instr_max
           blocks == IF push
                     THEN Append(tr.blocks, [basepc |-> block, endpc |-> block_end,
                                             jump_locations |-> jump_locations])
                     ELSE tr.blocks
       IN  tr' = [tr EXCEPT
                    !.global_jump_locations = @ \cup jals,
                    !.blocks = blocks,
                    !.icounter = IF push THEN @ + length ELSE @,
                    !.pc = block_end,
                    !.stage = IF push /\ Len(blocks) >= tr.translate_blocks_max
                              THEN "emit" ELSE "blocks",
                    !.b = 1]
    /\ UNCHANGED <<em, funcs, run, interp, hvars, dvars, lvars, rvars, mvars, cvars>>

\* The block loop ends; code generation starts with the first block.
TrBlocksEnd ==
    /\ tr.stage = "blocks"
    /\ ~(tr.pc < tr.endbasepc /\ tr.icounter < tr.translate_instr_max)
    /\ tr' = [tr EXCEPT !.stage = "emit", !.b = 1]
    /\ UNCHANGED <<em, funcs, run, interp, hvars, dvars, lvars, rvars, mvars, cvars>>

(***************************************************************************)
(* Code generation: Emitter<W>::emit.  The emitted C text is held as a     *)
(* list of statements [k, x, y, a, b, c]: k the kind, x and y operands     *)
(* (a register of the CPU or a constant), a, b, c numbers.                 *)
(***************************************************************************)

Const(v) == [t |-> "const", v |-> v]
Reg(n) == [t |-> "reg", v |-> n]
St(k, x, y, a, b, c) == [k |-> k, x |-> x, y |-> y, a |-> a, b |-> b, c |-> c]
St0(k, a, b, c) == St(k, Const(0), Const(0), a, b, c)

add_code(e, st) == [e EXCEPT !.code = Append(@, st)]

\* "cpu->r[reg]", the scanned gp constant for x3, "(addr_t)0" for x0.
from_reg(reg) ==
    IF reg = 3 /\ tr.gp # 0 THEN Const(tr.gp)
    ELSE IF reg # 0 THEN Reg(reg)
    ELSE Const(0)

to_reg(reg) == IF reg # 0 THEN Reg(reg) ELSE Const(0)

\* exit_function(new_pc): a = 1 sets cpu->pc to b before the return.
exit_function(e, setpc, new_pc) == add_code(e, St0("exit", setpc, new_pc, 0))

\* Mutant: the accumulated instruction count is dropped, not emitted.
increment_counter_so_far_dropped(e) == [e EXCEPT !.m_instr_counter = 0]

increment_counter_so_far(e) ==
    LET icount == e.m_instr_counter
        e1 == [e EXCEPT !.m_instr_counter = 0]
    IN  IF icount > 0 /\ ~tr.ignore_instruction_limit
        THEN add_code(e1, St0("count", icount, 0, 0))
        ELSE e1

add_reentry_next(e, pc, i) ==
    IF pc + 4 >= e.endpc THEN e
    ELSE [e EXCEPT !.mapping_labels = @ \cup {i + 1}]

\* Mutant: the base of the first scanned block, whatever block holds pc.
find_block_base_first(pc) ==
    IF tr.blocks = <<>> THEN 0 ELSE tr.blocks[1].basepc

find_block_base(pc) ==
    LET hits == {k \in 1 .. Len(tr.blocks) :
                    pc >= tr.blocks[k].basepc /\ pc < tr.blocks[k].endpc}
    IN  IF hits = {} THEN 0 ELSE tr.blocks[MinOf(hits)].basepc

within_segment(addr) == addr >= tr.basepc /\ addr < tr.endbasepc

\* Mutant: the labels are emitted without flushing the instruction counter.
EmitLabels_no_flush(e, i, pc) ==
    IF i > 0 /\ (i \in e.mapping_labels \/ pc \in tr.global_jump_locations)
    THEN [add_code(e, St0("label", pc, 0, 0)) EXCEPT !.mappings = Append(@, pc)]
    ELSE IF i > 0 /\ pc \in e.jump_locations
    THEN add_code(e, St0("label", pc, 0, 0))
    ELSE e

\* The head of the loop body: a return address or a global JAL target gets a
\* label and a mapping, a known jump location gets a label; the instruction
\* counter is flushed before either.
EmitLabels(e, i, pc) ==
    IF i > 0 /\ (i \in e.mapping_labels \/ pc \in tr.global_jump_locations)
    THEN [add_code(increment_counter_so_far(e), St0("label", pc, 0, 0))
             EXCEPT !.mappings = Append(@, pc)]
    ELSE IF i > 0 /\ pc \in e.jump_locations
    THEN add_code(increment_counter_so_far(e), St0("label", pc, 0, 0))
    ELSE e

\* The place in the emitted code where the code of one more guest
\* instruction starts (no C text): instructions without code in between
\* share one mark.
EmitMark(e) ==
    LET n == Len(e.code)
    IN  IF n > 0 /\ e.code[n].k = "insn"
        THEN [e EXCEPT !.code[n].a = @ + 1]
        ELSE add_code(e, St0("insn", 1, 0, 0))

add_branch(e, instr, pc, jump_pc) ==
    LET x == from_reg(instr.rs1)
        y == from_reg(instr.rs2)
        dest_pc == pc + instr.imm
    IN  IF dest_pc % 4 # 0
        THEN add_code(e, St("if_exception", x, y, instr.funct3, 0, 0))
        ELSE IF jump_pc # 0 /\ (jump_pc > pc \/ tr.ignore_instruction_limit)
        THEN add_code(e, St("if_goto", x, y, instr.funct3, jump_pc, 0))
        ELSE IF jump_pc # 0
        THEN add_code(e, St("if_loop", x, y, instr.funct3, jump_pc, dest_pc))
        ELSE add_code(e, St("if_exit", x, y, instr.funct3, 0, dest_pc))

EmitBranch(e, instr, pc) ==
    LET e1 == increment_counter_so_far(e)
        offset == instr.imm
        dest_pc == pc + offset
        forward == dest_pc # e.basepc /\ offset > 0 /\ dest_pc < e.endpc
        jump_pc == IF dest_pc = e.basepc THEN dest_pc
                   ELSE IF forward THEN dest_pc
                   ELSE IF /\ dest_pc \in e.jump_locations
                           /\ dest_pc >= e.basepc /\ dest_pc < e.endpc
                   THEN dest_pc
                   ELSE 0
        e2 == IF forward THEN [e1 EXCEPT !.labels = @ \cup {dest_pc}] ELSE e1
    IN  add_branch(e2, instr, pc, jump_pc)

EmitJalr(e, instr, pc, i) ==
    LET e1 == increment_counter_so_far(e)
        e2 == add_code(e1, St("jalr", from_reg(instr.rs1), Const(0),
                              instr.imm, instr.rd, pc + 4))
    IN  add_reentry_next(exit_function(e2, 0, 0), pc, i)

EmitJal(e, instr, pc, i) ==
    LET e1 == increment_counter_so_far(e)
        e2 == IF instr.rd # 0
              THEN add_code(e1, St("assign", Const(pc + 4), Const(0), instr.rd, 0, 0))
              ELSE e1
        dest_pc == (pc + instr.imm) - ((pc + instr.imm) % 4)
        next_pc == pc + 4
        in_block == dest_pc >= e.basepc /\ dest_pc < e.endpc
        target_funcaddr == find_block_base(dest_pc)
        direct_call == /\ ~in_block
                       /\ dest_pc \in tr.global_jump_locations
                       /\ within_segment(dest_pc)
                       /\ target_funcaddr # 0
                       /\ dest_pc > pc
        add_reentry == instr.rd # 0 \/ (in_block /\ dest_pc <= pc)
        \* jump inside the code block
        e3 == IF ~in_block THEN e2
              ELSE IF dest_pc > pc
              THEN add_code([e2 EXCEPT !.labels = @ \cup {dest_pc}],
                            St0("goto", dest_pc, 0, 0))
              ELSE IF tr.ignore_instruction_limit
              THEN add_code(e2, St0("goto", dest_pc, 0, 0))
              ELSE add_code(e2, St0("loop", dest_pc, 0, 0))
        \* direct call of the function of the target block
        e4 == IF ~direct_call THEN e3
              ELSE LET c1 == add_code([e3 EXCEPT !.forward_declared = @ \cup {target_funcaddr}],
                                      St0("call", target_funcaddr, dest_pc, 0))
                       c2 == IF instr.rd # 0 /\ pc + 4 < e.endpc
                             THEN add_code(add_reentry_next(c1, pc, i),
                                           St0("reenter", next_pc, 0, 0))
                             ELSE c1
                   IN  exit_function(c2, 0, 0)
        e5 == IF direct_call THEN e4 ELSE exit_function(e4, 1, dest_pc)
    IN  IF add_reentry THEN add_reentry_next(e5, pc, i) ELSE e5

\* RV32I_OP_IMM with funct3 = 0 (ADDI), the one OP_IMM of the programs.
EmitOpImm(e, instr) ==
    IF instr.rd = 0 THEN e
    ELSE IF instr.imm = 0
    THEN add_code(e, St("assign", from_reg(instr.rs1), Const(0), instr.rd, 0, 0))
    ELSE IF instr.rd = instr.rs1
    THEN add_code(e, St("assign", to_reg(instr.rd), Const(0), instr.rd, instr.imm, 0))
    ELSE add_code(e, St("assign", from_reg(instr.rs1), Const(0), instr.rd, instr.imm, 0))

EmitAuipc(e, instr, pc) ==
    IF instr.rd = 0 THEN e
    ELSE add_code(e, St("assign", Const(pc + instr.imm), Const(0), instr.rd, 0, 0))

\* RV32I_SYSTEM with funct3 = 0: ECALL / EBREAK, WFI / STOP, other.
EmitSystem(e, instr, pc, i) ==
    LET e1 == increment_counter_so_far(e)
    IN  IF instr.imm < 2
        THEN add_code(add_code(e1, St0("setpc", pc, 0, 0)),
                      St("syscall", IF instr.imm = 0 THEN from_reg(REG_ECALL) ELSE Const(0),
                         Const(0), 0, 0, 0))
        ELSE IF instr.imm = 261 \/ instr.imm = 2047
        THEN add_reentry_next(
                 exit_function(add_code(e1, St0("stop", 0, 0, 0)), 1, pc + 4), pc, i)
        ELSE add_code(add_code(e1, St0("setpc", pc, 0, 0)), St0("system", 0, 0, 0))

\* The switch over instr.opcode().
EmitInstruction(e, instr, pc, i) ==
    CASE instr.op = RV32I_BRANCH -> EmitBranch(e, instr, pc)
      [] instr.op = RV32I_JALR -> EmitJalr(e, instr, pc, i)
      [] instr.op = RV32I_JAL -> EmitJal(e, instr, pc, i)
      [] instr.op = RV32I_OP_IMM /\ instr.funct3 = 0 -> EmitOpImm(e, instr)
      [] instr.op = RV32I_AUIPC -> EmitAuipc(e, instr, pc)
      [] instr.op = RV32I_SYSTEM /\ instr.funct3 = 0 -> EmitSystem(e, instr, pc, i)
      [] OTHER -> add_code(e, St0("unknown", pc, 0, 0))

\* emit() of the next block starts: the mapping and the label of the block.
EmBegin ==
    /\ tr.stage = "emit"
    /\ em.stage = "idle"
    /\ tr.b <= Len(tr.blocks)
    /\ LET blk == tr.blocks[tr.b]
       IN  em' = [EmIdle EXCEPT !.stage = "emit",
                                !.basepc = blk.basepc,
                                !.endpc = blk.endpc,
                                !.jump_locations = blk.jump_locations,
                                !.mappings = <<blk.basepc>>,
                                !.code = <<St0("label", blk.basepc, 0, 0)>>]
    /\ UNCHANGED <<tr, funcs, run, interp, hvars, dvars, lvars, rvars, mvars, cvars>>

\* One iteration of the loop over tinfo.instr.
EmInsn ==
    /\ em.stage = "emit"
    /\ em.basepc + 4 * em.i < em.endpc
    /\ LET i == em.i
           pc == em.basepc + 4 * i
           instr == InstrAtPc(tr, pc)
           e1 == EmitMark(EmitLabels(em, i, pc))
           e2 == [e1 EXCEPT !.m_instr_counter = @ + 1]
       IN  em' = [EmitInstruction(e2, instr, pc, i) EXCEPT !.i = i + 1]
    /\ UNCHANGED <<tr, funcs, run, interp, hvars, dvars, lvars, rvars, mvars, cvars>>

\* After the loop: the counter is flushed, the function exits to end_pc;
\* CPU::emit wraps the code into the function of the block and try_translate
\* goes on with the next block.
EmEnd ==
    /\ em.stage = "emit"
    /\ em.basepc + 4 * em.i >= em.endpc
    /\ LET e == exit_function(increment_counter_so_far(em), 1, em.endpc)
       IN  funcs' = Append(funcs, [basepc |-> e.basepc, endpc |-> e.endpc,
                                   code |-> e.code, mappings |-> e.mappings])
    /\ em' = EmIdle
    /\ tr' = [tr EXCEPT !.b = @ + 1]
    /\ UNCHANGED <<run, interp, hvars, dvars, lvars, rvars, mvars, cvars>>

SeqRange(s) == {s[k] : k \in 1 .. Len(s)}

\* The labels the statements of code jump to.
GotoTargets(code) ==
    {code[p].b : p \in {q \in 1 .. Len(code) : code[q].k \in {"if_goto", "if_loop"}}}
    \cup {code[p].a : p \in {q \in 1 .. Len(code) : code[q].k \in {"goto", "loop", "reenter"}}}

\* The number of definitions of the label of addr in code.
LabelCount(code, addr) ==
    Cardinality({p \in 1 .. Len(code) : code[p].k = "label" /\ code[p].a = addr})

\* The labels the function header jumps to: the cases of the switch over pc,
\* which is emitted for more than one mapping.
SwitchTargets(fn) == IF Len(fn.mappings) > 1 THEN SeqRange(fn.mappings) ELSE {}

\* The C compiler accepts the function: every label that is jumped to is
\* defined, no label is defined twice, no case value is repeated.
Compiles(fn) ==
    /\ \A a \in GotoTargets(fn.code) \cup SwitchTargets(fn) : LabelCount(fn.code, a) >= 1
    /\ \A p \in 1 .. Len(fn.code) :
          fn.code[p].k = "label" => LabelCount(fn.code, fn.code[p].a) = 1
    /\ Len(fn.mappings) > 1 =>
          \A j, k \in 1 .. Len(fn.mappings) : fn.mappings[j] = fn.mappings[k] => j = k

\* All blocks are emitted: the code is compiled, and its functions can run
\* when the compiler returned a library (dylib == nullptr: nothing is
\* activated).
TrCompiled ==
    /\ tr.stage = "emit"
    /\ em.stage = "idle"
    /\ tr.b > Len(tr.blocks)
    /\ tr' = [tr EXCEPT !.stage =
                 IF funcs = <<>> THEN "nothing"
                 ELSE IF \A k \in 1 .. Len(funcs) : Compiles(funcs[k])
                 THEN "compiled" ELSE "rejected"]
    /\ UNCHANGED <<em, funcs, run, interp, hvars, dvars, lvars, rvars, mvars, cvars>>

(***************************************************************************)
(* Running the emitted functions.  A frame is one activation of an emitted *)
(* function: its position in the code and its locals counter and           *)
(* max_counter; the CPU registers and PC are shared.  Next to it runs the  *)
(* interpreter of the same segment, one instruction at a time, over the    *)
(* instructions whose code the emitted functions pass.                     *)
(***************************************************************************)

MaxSteps == 24

MaxBudget == 3

\* One instruction of the interpreter on registers and PC.
InterpStep(s) ==
    LET instr == InstrAtPc(tr, s.pc)
        rs1 == s.regs[instr.rs1]
        rs2 == s.regs[instr.rs2]
        wr(v) == IF instr.rd = 0 THEN s.regs ELSE [s.regs EXCEPT ![instr.rd] = v]
    IN  CASE instr.op = RV32I_OP_IMM ->
                [s EXCEPT !.regs = wr(rs1 + instr.imm), !.pc = @ + 4]
          [] instr.op = RV32I_AUIPC ->
                [s EXCEPT !.regs = wr(s.pc + instr.imm), !.pc = @ + 4]
          [] instr.op = RV32I_BRANCH ->
                IF (instr.funct3 = 0 /\ rs1 = rs2) \/ (instr.funct3 = 1 /\ rs1 # rs2)
                THEN [s EXCEPT !.pc = @ + instr.imm]
                ELSE [s EXCEPT !.pc = @ + 4]
          [] instr.op = RV32I_JAL ->
                [s EXCEPT !.regs = wr(s.pc + 4), !.pc = @ + instr.imm]
          [] instr.op = RV32I_JALR ->
                [s EXCEPT !.regs = wr(s.pc + 4), !.pc = rs1 + instr.imm]
          [] instr.op = RV32I_SYSTEM ->
                [s EXCEPT !.pc = @ + 4]
          [] OTHER -> [s EXCEPT !.stage = "exception"]

Val(regs, x) == IF x.t = "reg" THEN regs[x.v] ELSE x.v

FuncOf(basepc) == CHOOSE k \in 1 .. Len(funcs) : funcs[k].basepc = basepc

LabelIp(code, addr) ==
    CHOOSE p \in 1 .. Len(code) : code[p].k = "label" /\ code[p].a = addr

\* The function header: the switch over pc when the function has more than
\* one mapping (0: the default case), else the start of the code.
EntryIp(f, pc) ==
    IF Len(funcs[f].mappings) > 1
    THEN IF pc \in SeqRange(funcs[f].mappings) THEN LabelIp(funcs[f].code, pc) ELSE 0
    ELSE 1

\* The dispatch loop calls the function of a mapping with the counters of the
\* machine; the interpreter starts from the same registers and PC.
RunCall(budgets) ==
    /\ tr.stage = "compiled"
    /\ run.stage = "idle"
    /\ \E f \in 1 .. Len(funcs), x3 \in {0, 64}, x5 \in {0, 1}, budget \in budgets :
         \E pc \in SeqRange(funcs[f].mappings) :
           LET regs == [r \in RegSet |->
                           CASE r = 1 -> tr.basepc [] r = 3 -> x3 [] r = 5 -> x5 [] OTHER -> 0]
               counter == 7
           IN  /\ run' = [RunIdle EXCEPT
                            !.stage = "running", !.regs = regs, !.pc = pc,
                            !.frames = <<[f |-> f, ip |-> EntryIp(f, pc),
                                          counter |-> counter,
                                          max_counter |-> counter + budget,
                                          counter_in |-> counter, executed_in |-> 0]>>]
               /\ interp' = [stage |-> "running", regs |-> regs, pc |-> pc, pending |-> 0]
    /\ UNCHANGED <<tr, em, funcs, hvars, dvars, lvars, rvars, mvars, cvars>>

RunBegin == RunCall({1, MaxBudget, 2 * ITS_TIME_TO_SPLIT})

\* The same call with a budget the function uses up within MaxSteps
\* statements.
RunBeginShort == RunCall({1, MaxBudget})

\* The comparison of a conditional statement (funct3: 0 ==, 1 !=).
Cond(regs, st) ==
    IF st.a = 0 THEN Val(regs, st.x) = Val(regs, st.y)
    ELSE Val(regs, st.x) # Val(regs, st.y)

\* The run after the top frame returns {counter, max_counter}.
Returned(r, counter, max_counter) ==
    LET n == Len(r.frames)
        fr == r.frames[n]
        ret == [valid |-> TRUE, counter |-> counter, max_counter |-> max_counter,
                counter_in |-> fr.counter_in,
                executed |-> r.executed - fr.executed_in, depth |-> n]
    IN  IF n = 1
        THEN [r EXCEPT !.stage = "returned", !.frames = <<>>, !.ret = ret]
        ELSE [r EXCEPT !.ret = ret,
                       !.frames = [SubSeq(r.frames, 1, n - 1) EXCEPT
                           ![n - 1].counter =
                               IF tr.ignore_instruction_limit THEN @ ELSE counter,
                           ![n - 1].max_counter = max_counter]]

\* "return (ReturnValues){counter, max_counter};" of exit_function.
ExitReturn(r) ==
    LET fr == r.frames[Len(r.frames)]
    IN  Returned(r, IF tr.ignore_instruction_limit THEN 0 ELSE fr.counter, fr.max_counter)

\* The run with the top frame at the statement after the current one / at
\* the label of addr.
Advance(r) == [r EXCEPT !.frames[Len(r.frames)].ip = @ + 1]

Goto(r, addr) ==
    LET n == Len(r.frames)
    IN  [r EXCEPT !.frames[n].ip = LabelIp(funcs[r.frames[n].f].code, addr)]

\* One statement of the top frame that is no system call.
Exec(r, st) ==
    LET n == Len(r.frames)
        fr == r.frames[n]
        may_loop == fr.counter < fr.max_counter
    IN  CASE st.k = "label" -> Advance(r)
          [] st.k = "insn" -> Advance([r EXCEPT !.executed = @ + st.a])
          [] st.k = "count" -> Advance([r EXCEPT !.frames[n].counter = @ + st.a])
          [] st.k = "assign" ->
                Advance([r EXCEPT !.regs[st.a] = Val(r.regs, st.x) + st.b])
          [] st.k = "if_goto" ->
                IF Cond(r.regs, st) THEN Goto(r, st.b) ELSE Advance(r)
          [] st.k = "if_loop" ->
                IF ~Cond(r.regs, st) THEN Advance(r)
                ELSE IF may_loop THEN Goto(r, st.b)
                ELSE ExitReturn([r EXCEPT !.pc = st.c])
          [] st.k = "if_exit" ->
                IF Cond(r.regs, st) THEN ExitReturn([r EXCEPT !.pc = st.c]) ELSE Advance(r)
          [] st.k = "if_exception" ->
                IF Cond(r.regs, st) THEN [r EXCEPT !.stage = "exception"] ELSE Advance(r)
          [] st.k = "goto" -> Goto(r, st.a)
          [] st.k = "loop" -> IF may_loop THEN Goto(r, st.a) ELSE Advance(r)
          [] st.k = "exit" ->
                ExitReturn(IF st.a = 1 THEN [r EXCEPT !.pc = st.b] ELSE r)
          [] st.k = "jalr" ->
                LET rs1 == Val(r.regs, st.x)
                    r1 == IF st.b # 0 THEN [r EXCEPT !.regs[st.b] = st.c] ELSE r
                IN  Advance([r1 EXCEPT !.pc = rs1 + st.a])
          [] st.k = "call" ->
                LET f == FuncOf(st.a)
                    ip == EntryIp(f, st.b)
                    counter == IF tr.ignore_instruction_limit THEN 0 ELSE fr.counter
                    callee == [f |-> f, ip |-> ip, counter |-> counter,
                               max_counter |-> fr.max_counter,
                               counter_in |-> counter, executed_in |-> r.executed]
                IN  IF ip = 0 THEN [r EXCEPT !.stage = "exception"]
                    ELSE [Advance(r) EXCEPT !.frames = Append(@, callee)]
          [] st.k = "reenter" ->
                IF (tr.ignore_instruction_limit \/ may_loop) /\ r.pc = st.a
                THEN Goto(r, st.a) ELSE Advance(r)
          [] st.k = "setpc" -> Advance([r EXCEPT !.pc = st.a])
          [] st.k = "stop" -> Advance([r EXCEPT !.frames[n].max_counter = 0])
          [] OTHER -> [r EXCEPT !.stage = "exception"]

\* do_syscall: the system call handler runs with the counters stored in the
\* machine and either returns normally or stops the machine (max counter 0).
ExecSyscall(r, stopped) ==
    LET fr == r.frames[Len(r.frames)]
    IN  IF stopped
        THEN Returned([r EXCEPT !.pc = @ + 4],
                      IF tr.ignore_instruction_limit THEN 0 ELSE fr.counter, 0)
        ELSE Advance(r)

\* The emitted code executes one statement; at the start of the code of n
\* guest instructions the interpreter executes the first of them and has the
\* other n - 1 pending.
RunStep ==
    /\ run.stage = "running"
    /\ run.steps < MaxSteps
    /\ interp.pending = 0
    /\ LET fr == run.frames[Len(run.frames)]
           st == funcs[fr.f].code[fr.ip]
           r == [run EXCEPT !.steps = @ + 1]
       IN  /\ IF st.k = "syscall"
              THEN \E stopped \in BOOLEAN : run' = ExecSyscall(r, stopped)
              ELSE run' = Exec(r, st)
           /\ interp' = IF st.k = "insn"
                         THEN [InterpStep(interp) EXCEPT !.pending = st.a - 1]
                         ELSE interp
    /\ UNCHANGED <<tr, em, funcs, hvars, dvars, lvars, rvars, mvars, cvars>>

\* The interpreter executes one pending instruction.
InterpNext ==
    /\ interp.pending > 0
    /\ interp' = [InterpStep(interp) EXCEPT !.pending = @ - 1]
    /\ UNCHANGED <<tr, em, funcs, run, hvars, dvars, lvars, rvars, mvars, cvars>>

(***************************************************************************)
(* SpecTranslate: a segment is translated, emitted, and one of its         *)
(* functions is called from a mapping.                                     *)
(***************************************************************************)

MaxBody == 2

MaxBlocks == 2

Alphabet ==
    {ADDI(5, 3, 0), ADDI(5, 3, 4), ADDI(3, 3, 8), ADDI(5, 5, 1), AUIPC(3, 0),
     BEQ(5, 0, 8), BNE(5, 0, -4), JAL(0, 8), JAL(1, -4), JALR(0, 1, 0),
     ECALL, WFI, NOP}

ShortPrograms ==
    {[nops |-> 0, body |-> b] : b \in UNION {[1 .. n -> Alphabet] : n \in 1 .. MaxBody}}

\* Programs of two blocks (the first ends at its instruction number
\* ITS_TIME_TO_SPLIT, a WFI), programs with labels, loops, the gp sequence
\* and a misaligned branch.
PickedPrograms ==
    {[nops |-> ITS_TIME_TO_SPLIT - 3,
      body |-> <<JAL(1, 12), ADDI(5, 5, 1), WFI, ADDI(5, 5, 1), JALR(0, 1, 0)>>],
     [nops |-> ITS_TIME_TO_SPLIT - 3,
      body |-> <<JAL(0, 16), ADDI(5, 3, 0), WFI, ECALL, BEQ(5, 0, -4), JALR(0, 1, 0)>>],
     [nops |-> 0, body |-> <<BEQ(5, 0, 12), ADDI(5, 5, 1), NOP, ADDI(5, 5, 1), WFI>>],
     [nops |-> 1, body |-> <<NOP, ADDI(5, 5, 1), BNE(5, 3, -8), JAL(0, -12)>>],
     [nops |-> 0, body |-> <<ADDI(5, 3, 0), AUIPC(3, 0), ADDI(3, 3, 8), JALR(0, 1, 0)>>],
     [nops |-> 0, body |-> <<BEQ(5, 0, 6), ADDI(5, 5, 1)>>]}

Programs == ShortPrograms \cup PickedPrograms

TInit ==
    /\ DIdle
    /\ LIdle
    /\ RIdle
    /\ MIdle
    /\ CIdle
    /\ instr_handlers = EmptyHandlerTable
    /\ h_ret = [handler |-> NULLH, index |-> 0, err |-> "none"]
    /\ h_hist = [h \in 1..NumHandlers |-> 0]
    /\ \E P \in Programs, ignore \in BOOLEAN, entry \in {0, 1} :
         tr = [TrIdle EXCEPT
                 !.stage = "start", !.prog = P, !.basepc = PageSize,
                 !.endbasepc = PageSize + 4 * ProgLen(P),
                 !.ignore_instruction_limit = ignore,
                 !.elf_entry = entry * (PageSize + 4 * (P.nops + 1)),
                 !.translate_instr_max = 2 * ITS_TIME_TO_SPLIT,
                 !.translate_blocks_max = MaxBlocks]
    /\ em = EmIdle
    /\ funcs = <<>>
    /\ run = RunIdle
    /\ interp = InterpIdle

TNext ==
    \/ TrScanGp
    \/ TrBlock
    \/ TrBlocksEnd
    \/ EmBegin
    \/ EmInsn
    \/ EmEnd
    \/ TrCompiled
    \/ RunBegin
    \/ RunStep
    \/ InterpNext

SpecTranslate == TInit /\ [][TNext]_vars

(***************************************************************************)
(* SpecEmit: the same translator on segments chosen for their jumps: JALs  *)
(* and branches whose target is not a multiple of 4, loops, calls between  *)
(* blocks, system instructions in the middle of a block.                   *)
(***************************************************************************)

JumpPrograms ==
    {[nops |-> 0, body |-> <<JAL(0, 6), ADDI(5, 5, 1), ADDI(5, 5, 1), JALR(0, 1, 0)>>],
     [nops |-> 0, body |-> <<JAL(0, 6)>>],
     [nops |-> 0, body |-> <<JAL(1, 6), ADDI(5, 5, 1)>>],
     [nops |-> 0, body |-> <<ADDI(5, 5, 1), JAL(0, -2), JALR(0, 1, 0)>>],
     [nops |-> 0, body |-> <<BEQ(5, 0, 6), ADDI(5, 5, 1)>>],
     [nops |-> 0, body |-> <<ADDI(5, 5, 1), BNE(5, 0, -4), JALR(0, 1, 0)>>],
     [nops |-> 0, body |-> <<BNE(5, 0, 8), JAL(0, 0), ADDI(5, 5, 1)>>],
     [nops |-> 1, body |-> <<ADDI(5, 5, 1), JAL(0, -8)>>],
     [nops |-> 0, body |-> <<BEQ(0, 0, 0)>>],
     [nops |-> 0, body |-> <<ECALL, ADDI(5, 5, 1), WFI, JAL(1, 8), JALR(0, 1, 0), ECALL>>],
     [nops |-> ITS_TIME_TO_SPLIT - 3,
      body |-> <<JAL(5, 12), JAL(0, 12), WFI, ADDI(5, 5, 1), JALR(0, 1, 0), WFI>>],
     [nops |-> ITS_TIME_TO_SPLIT - 2,
      body |-> <<JAL(0, 12), WFI, JAL(1, 8), JAL(0, -8), ADDI(5, 5, 1), JALR(0, 5, 0)>>]}

EInit ==
    /\ DIdle
    /\ LIdle
    /\ RIdle
    /\ MIdle
    /\ CIdle
    /\ instr_handlers = EmptyHandlerTable
    /\ h_ret = [handler |-> NULLH, index |-> 0, err |-> "none"]
    /\ h_hist = [h \in 1..NumHandlers |-> 0]
    /\ \E P \in PickedPrograms \cup JumpPrograms, ignore \in BOOLEAN, entry \in {0, 1} :
         tr = [TrIdle EXCEPT
                 !.stage = "start", !.prog = P, !.basepc = PageSize,
                 !.endbasepc = PageSize + 4 * ProgLen(P),
                 !.ignore_instruction_limit = ignore,
                 !.elf_entry = entry * (PageSize + 4 * (P.nops + 1)),
                 !.translate_instr_max = 2 * ITS_TIME_TO_SPLIT,
                 !.translate_blocks_max = MaxBlocks]
    /\ em = EmIdle
    /\ funcs = <<>>
    /\ run = RunIdle
    /\ interp = InterpIdle

SpecEmit == EInit /\ [][TNext]_vars

(***************************************************************************)
(* SpecLoops: segments with loops are translated with the instruction      *)
(* limit in force and their functions are called with a small budget; the  *)
(* emitted code, once called, keeps executing.                             *)
(***************************************************************************)

LoopPrograms ==
    {[nops |-> 0, body |-> <<ADDI(5, 5, 1), BNE(5, 0, -4), JALR(0, 1, 0)>>],
     [nops |-> 0, body |-> <<BNE(5, 0, 8), JAL(0, 0), ADDI(5, 5, 1)>>],
     [nops |-> 1, body |-> <<ADDI(5, 5, 1), JAL(0, -8)>>],
     [nops |-> 1, body |-> <<NOP, ADDI(5, 5, 1), BNE(5, 3, -8), JAL(0, -12)>>],
     [nops |-> 0, body |-> <<BEQ(0, 0, 0)>>],
     [nops |-> 0, body |-> <<JAL(1, 4), BNE(5, 0, 8), JAL(0, -4), ECALL, JAL(0, -8)>>]}

LoopInit ==
    /\ DIdle
    /\ LIdle
    /\ RIdle
    /\ MIdle
    /\ CIdle
    /\ instr_handlers = EmptyHandlerTable
    /\ h_ret = [handler |-> NULLH, index |-> 0, err |-> "none"]
    /\ h_hist = [h \in 1..NumHandlers |-> 0]
    /\ \E P \in LoopPrograms :
         tr = [TrIdle EXCEPT
                 !.stage = "start", !.prog = P, !.basepc = PageSize,
                 !.endbasepc = PageSize + 4 * ProgLen(P),
                 !.ignore_instruction_limit = FALSE,
                 !.elf_entry = 0,
                 !.translate_instr_max = 2 * ITS_TIME_TO_SPLIT,
                 !.translate_blocks_max = MaxBlocks]
    /\ em = EmIdle
    /\ funcs = <<>>
    /\ run = RunIdle
    /\ interp = InterpIdle

LoopNext ==
    \/ TrScanGp
    \/ TrBlock
    \/ TrBlocksEnd
    \/ EmBegin
    \/ EmInsn
    \/ EmEnd
    \/ TrCompiled
    \/ RunBeginShort
    \/ RunStep
    \/ InterpNext

SpecLoops == LoopInit /\ [][LoopNext]_vars /\ WF_vars(RunStep \/ InterpNext)

(***************************************************************************)
(* The block scanner of try_translate at the level of addresses             *)
(* (SpecScan): the scanned range [basepc, endbasepc) holds the half-words   *)
(* of the execute segment, read_instruction fetches at pc, and pc advances  *)
(* by instruction.length() with the C extension and by 4 without it.  The   *)
(* scanner's state is held in tr.  The jump locations of a block do not     *)
(* influence where blocks begin and end; TrBlock models them.               *)
(***************************************************************************)

\* RV32_INSTR_STOP = 0x7ff00073 as <<low half, high half>>.
RV32_INSTR_STOP == <<115, 32752>>

\* Itype.funct3 (bits 14..12) and Itype.imm (bits 31..20) of a fetched word.
ItypeFunct3(insn) == (insn[1] \div 4096) % 8

ItypeImm(insn) == insn[2] \div 16

\* is_stopping_instruction on a fetched word; the C.JR / C.JALR case exists
\* only in builds with the C extension.
is_stopping_word(c, insn) ==
    \/ Opcode(insn) = RV32I_JALR
    \/ insn = RV32_INSTR_STOP
    \/ Opcode(insn) = RV32I_SYSTEM /\ ItypeFunct3(insn) = 0 /\ ItypeImm(insn) = 261
    \/ /\ c.compressed
       /\ InstrLength(insn) = 2
       /\ CiOpcode(insn[1]) = CI_CODE(4, 2)
       /\ CR_rd(insn[1]) # 0
       /\ CR_rs2(insn[1]) = 0

\* pc += instruction.length() or pc += 4.
ScanAdvance(c, insn) == IF c.compressed THEN InstrLength(insn) ELSE 4

ScanStart(s, instr_max, blocks_max) ==
    [stage |-> "outer", basepc |-> s.exec_begin, endbasepc |-> s.exec_end,
     translate_instr_max |-> instr_max, translate_blocks_max |-> blocks_max,
     pc |-> s.exec_begin, block |-> 0, block_insns |-> 0, icounter |-> 0,
     blocks |-> <<>>]

\* The head of the outer loop: for (pc = basepc; pc < endbasepc && icounter < max; ).
ScOuter ==
    /\ tr.stage = "outer"
    /\ IF tr.pc < tr.endbasepc /\ tr.icounter < tr.translate_instr_max
       THEN tr' = [tr EXCEPT !.stage = "inner", !.block = tr.pc, !.block_insns = 0]
       ELSE tr' = [tr EXCEPT !.stage = "scanned"]
    /\ UNCHANGED <<hvars, dvars, lvars, rvars, em, funcs, run, interp, mvars, cvars>>

\* One iteration of the inner loop, which finds the end of the block.
ScInner ==
    /\ tr.stage = "inner"
    /\ LET instruction == read_instruction(seg, tr.pc, tr.endbasepc)
           pc == tr.pc + ScanAdvance(cfg, instruction)
           block_insns == tr.block_insns + 1
           break == block_insns >= ITS_TIME_TO_SPLIT /\ is_stopping_word(cfg, instruction)
       IN  tr' = [tr EXCEPT !.pc = pc, !.block_insns = block_insns,
                            !.stage = IF break \/ ~(pc < tr.endbasepc)
                                      THEN "process" ELSE "inner"]
    /\ UNCHANGED <<hvars, dvars, lvars, rvars, em, funcs, run, interp, mvars, cvars>>

\* The rest of the outer iteration: block_end = pc, the second walk over
\* [block, block_end) collects as many instructions as the first one counted,
\* and the block is pushed if it fits the instruction budget.
ScProcess ==
    /\ tr.stage = "process"
    /\ LET block_end == tr.pc
           length == tr.block_insns
           push == length > 0 /\ tr.icounter + length < tr.translate_instr_max
           blocks == IF push
                     THEN Append(tr.blocks, [basepc |-> tr.block, endpc |-> block_end,
                                             length |-> length])
                     ELSE tr.blocks
       IN  tr' = [tr EXCEPT !.blocks = blocks,
                            !.icounter = IF push THEN tr.icounter + length ELSE tr.icounter,
                            !.pc = block_end,
                            !.stage = IF push /\ Len(blocks) >= tr.translate_blocks_max
                                      THEN "scanned" ELSE "outer"]
    /\ UNCHANGED <<hvars, dvars, lvars, rvars, em, funcs, run, interp, mvars, cvars>>

\* Segments long enough to be split: ITS_TIME_TO_SPLIT - 1 ADDI x0,x0,0, a
\* RET (JALR x0, x1, 0 = 0x00008067), and n more ADDI.
SplitData(n) ==
    [k \in 1..(2 * (ITS_TIME_TO_SPLIT + n)) |->
        IF k % 2 = 0 THEN 0
        ELSE IF k = 2 * ITS_TIME_TO_SPLIT - 1 THEN 32871 ELSE 19]

\* Two full blocks and a tail: a RET at instruction ITS_TIME_TO_SPLIT and at
\* instruction 2 * ITS_TIME_TO_SPLIT.
SplitTwiceData ==
    [k \in 1..(2 * (2 * ITS_TIME_TO_SPLIT + 1)) |->
        IF k % 2 = 0 THEN 0
        ELSE IF k \in {2 * ITS_TIME_TO_SPLIT - 1, 4 * ITS_TIME_TO_SPLIT - 1}
             THEN 32871 ELSE 19]

ScanDatas ==
    (SeqsOf(SegHalfs, MaxSegHalfs) \ {<<>>}) \cup MixedDatas
        \cup {SplitData(0), SplitData(2), SplitTwiceData}

ScanSegments ==
    {[exec_begin |-> PageSize, exec_end |-> PageSize + 2 * Len(d), exec_data |-> d,
      translated |-> FALSE] : d \in ScanDatas}

\* options.translate_instr_max and options.translate_blocks_max.
ScanInstrMax == {ITS_TIME_TO_SPLIT, ITS_TIME_TO_SPLIT + 4, 4 * ITS_TIME_TO_SPLIT}

ScanBlocksMax == {1, MaxBlocks}

SInit ==
    /\ cfg \in {c \in Configs : c.W = 4}
    /\ seg \in ScanSegments
    /\ decoder = <<>>
    /\ gen = [stage |-> "idle", dst |-> 0, was_full_instruction |-> TRUE, err |-> "none"]
    /\ fs = FsIdle
    /\ LIdle
    /\ RIdle
    /\ MIdle
    /\ CIdle
    /\ \E instr_max \in ScanInstrMax, blocks_max \in ScanBlocksMax :
          tr = ScanStart(seg, instr_max, blocks_max)
    /\ em = EmIdle /\ funcs = <<>> /\ run = RunIdle /\ interp = InterpIdle
    /\ instr_handlers = EmptyHandlerTable
    /\ h_ret = [handler |-> NULLH, index |-> 0, err |-> "none"]
    /\ h_hist = [h \in 1..NumHandlers |-> 0]

SNext == ScOuter \/ ScInner \/ ScProcess

SpecScan == SInit /\ [][SNext]_vars

(***************************************************************************)
(* The translation hash of load_translation (SpecHash): CRC32C over the     *)
(* bytes of the execute segment, folded with a CRC32C pass over the string  *)
(* that defines_to_string builds from the feature-flag map.  A uint32_t is  *)
(* a pair <<low half, high half>>, a std::string a sequence of character    *)
(* codes, and the std::unordered_map a set of <<key, value>> pairs together *)
(* with the order its iterator visits them in.  Two runs over the same      *)
(* segment and the same map are computed, one after the other.              *)
(***************************************************************************)

RECURSIVE Xor16(_, _, _)
Xor16(a, b, n) ==
    IF n = 0 THEN 0
    ELSE ((a + b) % 2) + 2 * Xor16(a \div 2, b \div 2, n - 1)

Xor32(a, b) == <<Xor16(a[1], b[1], 16), Xor16(a[2], b[2], 16)>>

\* operator ~ on a uint32_t.
Not32(a) == <<65535 - a[1], 65535 - a[2]>>

\* The reflected Castagnoli polynomial 0x82F63B78.
CRC32C_POLY == <<15224, 33526>>

CrcBit(c) ==
    LET shifted == <<(c[1] \div 2) + (c[2] % 2) * 32768, c[2] \div 2>>
    IN  IF c[1] % 2 = 1 THEN Xor32(shifted, CRC32C_POLY) ELSE shifted

\* crc32c(partial, data, len) for one byte of data.
CrcByte(c, byte) ==
    CrcBit(CrcBit(CrcBit(CrcBit(CrcBit(CrcBit(CrcBit(CrcBit(Xor32(c, <<byte, 0>>)))))))))

\* The bytes of the segment, low byte of each half-word first.
SegBytes(s) ==
    [k \in 1..(2 * Len(s.exec_data)) |->
        IF k % 2 = 1 THEN s.exec_data[(k + 1) \div 2] % 256
        ELSE s.exec_data[k \div 2] \div 256]

\* "RISCV_EXT_A"
K_RISCV_EXT_A == <<82, 73, 83, 67, 86, 95, 69, 88, 84, 95, 65>>

\* "RISCV_EXT_C"
K_RISCV_EXT_C == <<82, 73, 83, 67, 86, 95, 69, 88, 84, 95, 67>>

\* "RISCV_TRACING"
K_RISCV_TRACING == <<82, 73, 83, 67, 86, 95, 84, 82, 65, 67, 73, 78, 71>>

\* " -D", "=" and "1".
S_DASH_D == <<32, 45, 68>>

S_EQ == <<61>>

S_ONE == <<49>>

\* The defines create_defines_for can emplace besides the ones every build
\* has: atomics_enabled, compressed_enabled, options.translate_trace.
FlagPairs == {<<K_RISCV_EXT_A, S_ONE>>, <<K_RISCV_EXT_C, S_ONE>>, <<K_RISCV_TRACING, S_ONE>>}

\* The orders in which an iterator can visit the pairs of a map.
IterationOrders(m) ==
    {q \in [1..Cardinality(m) -> m] : \A i, j \in 1..Cardinality(m) : q[i] = q[j] => i = j}

\* defines_to_string over the pairs as the iterator visits them.
RECURSIVE defines_to_string(_)
defines_to_string(order) ==
    IF order = <<>> THEN <<>>
    ELSE LET pair == Head(order)
         IN  S_DASH_D \o pair[1] \o S_EQ \o pair[2] \o defines_to_string(Tail(order))

HsStart(m, o1, o2) ==
    [stage |-> "segment", flags |-> m, orders |-> <<o1, o2>>, run |-> 1,
     cflags |-> <<>>, k |-> 1, crc |-> <<65535, 65535>>, hashes |-> <<>>, err |-> "none"]

\* exec.crc32c_hash(): one byte of the segment.
HsSegByte ==
    /\ hs.stage = "segment"
    /\ hs.k <= 2 * Len(seg.exec_data)
    /\ hs' = [hs EXCEPT !.crc = CrcByte(hs.crc, SegBytes(seg)[hs.k]), !.k = hs.k + 1]
    /\ UNCHANGED <<hvars, dvars, lvars, tvars, registry, ld, bintr, mvars, cvars>>

\* checksum = exec.crc32c_hash(); the zero test; cflags = defines_to_string(...).
HsSegDone ==
    /\ hs.stage = "segment"
    /\ hs.k > 2 * Len(seg.exec_data)
    /\ LET checksum == Not32(hs.crc)
       IN  IF checksum = <<0, 0>>
           THEN hs' = [hs EXCEPT !.stage = "throw", !.err = "INVALID_PROGRAM"]
           ELSE hs' = [hs EXCEPT !.stage = "cflags",
                                 !.cflags = defines_to_string(hs.orders[hs.run]),
                                 !.crc = Not32(checksum), !.k = 1]
    /\ UNCHANGED <<hvars, dvars, lvars, tvars, registry, ld, bintr, mvars, cvars>>

\* crc32c(~checksum, cflags.c_str(), cflags.size()): one character.
HsFlagByte ==
    /\ hs.stage = "cflags"
    /\ hs.k <= Len(hs.cflags)
    /\ hs' = [hs EXCEPT !.crc = CrcByte(hs.crc, hs.cflags[hs.k]), !.k = hs.k + 1]
    /\ UNCHANGED <<hvars, dvars, lvars, tvars, registry, ld, bintr, mvars, cvars>>

\* checksum = ~crc32c(...); exec.set_translation_hash(checksum).  The second
\* run starts when the first has stored its hash.
HsFlagDone ==
    /\ hs.stage = "cflags"
    /\ hs.k > Len(hs.cflags)
    /\ LET hashes == Append(hs.hashes, Not32(hs.crc))
       IN  IF hs.run = 1
           THEN hs' = [hs EXCEPT !.hashes = hashes, !.run = 2, !.stage = "segment",
                                 !.k = 1, !.crc = <<65535, 65535>>]
           ELSE hs' = [hs EXCEPT !.hashes = hashes, !.stage = "done"]
    /\ UNCHANGED <<hvars, dvars, lvars, tvars, registry, ld, bintr, mvars, cvars>>

HashSegments ==
    {[exec_begin |-> PageSize, exec_end |-> PageSize + 2 * Len(d), exec_data |-> d,
      translated |-> FALSE] : d \in MixedDatas \cup {<<32871, 0>>}}

HashInit ==
    /\ cfg \in {c \in Configs : c.W = 4}
    /\ seg \in HashSegments
    /\ decoder = <<>>
    /\ gen = [stage |-> "idle", dst |-> 0, was_full_instruction |-> TRUE, err |-> "none"]
    /\ fs = FsIdle
    /\ lp = LpIdle /\ patched = <<>> /\ patched_hist = <<>> /\ reader = ReaderIdle
    /\ TIdle
    /\ instr_handlers = EmptyHandlerTable
    /\ h_ret = [handler |-> NULLH, index |-> 0, err |-> "none"]
    /\ h_hist = [h \in 1..NumHandlers |-> 0]
    /\ \E m \in SUBSET FlagPairs :
          \E o1 \in IterationOrders(m), o2 \in IterationOrders(m) : hs = HsStart(m, o1, o2)
    /\ registry = RegistryEmpty
    /\ ld = LdIdle
    /\ bintr = BintrNone
    /\ MIdle
    /\ CIdle

HashNext == HsSegByte \/ HsSegDone \/ HsFlagByte \/ HsFlagDone

SpecHash == HashInit /\ [][HashNext]_vars

(***************************************************************************)
(* The registry of embedded translations (SpecRegistry): the constructors   *)
(* of the statically linked translations call register_translation one      *)
(* after the other.  The std::array of MAX_EMBEDDED slots is the sequence of *)
(* its first count elements.                                                *)
(***************************************************************************)

MAX_EMBEDDED == 12

\* The hashes that name translations: values of the 32-bit checksum.
Checksums == {1, 2}

\* An EmbeddedTranslation as register_translation stores it (api_table, the
\* slot of the callback table, is left out: it is written only by the
\* embedded code's own table).
EmbeddedTranslation(hash, mappings, handlers) ==
    [hash |-> hash, nmappings |-> Len(mappings), mappings |-> mappings,
     nhandlers |-> Len(handlers), handlers |-> handlers]

\* Mutant: the capacity test lets one more translation in.
register_translation_one_more(reg, t) ==
    IF reg.count > MAX_EMBEDDED
    THEN [reg EXCEPT !.err = "INVALID_PROGRAM"]
    ELSE [count |-> reg.count + 1, translations |-> Append(reg.translations, t),
          err |-> "none"]

register_translation(reg, t) ==
    IF reg.count >= MAX_EMBEDDED
    THEN [reg EXCEPT !.err = "INVALID_PROGRAM"]
    ELSE [count |-> reg.count + 1, translations |-> Append(reg.translations, t),
          err |-> "none"]

\* The translations the constructors register: one block function at the
\* first address of a segment loaded at PageSize, under either hash.
RegisterInputs ==
    {EmbeddedTranslation(h, <<[addr |-> PageSize, mapping_index |-> 0]>>, <<100 + h>>) :
        h \in Checksums}

RegisterTranslation ==
    /\ ld.stage = "idle"
    /\ \E t \in RegisterInputs : registry' = register_translation(registry, t)
    /\ UNCHANGED <<hvars, dvars, lvars, tvars, hs, ld, bintr, mvars, cvars>>

RegInit == HInit

RegNext == RegisterTranslation

SpecRegistry == RegInit /\ [][RegNext]_vars

(***************************************************************************)
(* load_translation (SpecLoad): called by generate_decoder_cache before     *)
(* the decode loop, and by the embedder on a constructed segment.  The      *)
(* checksum is an input here (SpecHash computes it); the libtcc build and   *)
(* the verbose and timing output are left out.                              *)
(***************************************************************************)

\* The options load_translation reads; cross_compile: the list holds an entry
\* that forces a compilation.
Options ==
    [translate_enabled : BOOLEAN, translate_enable_embedded : BOOLEAN,
     translate_blocks_max : {0, MaxBlocks}, cross_compile : BOOLEAN]

\* Mutant: the loop over the registry keeps the last translation that matches.
find_embedded_last(reg, checksum) ==
    LET hits == {i \in 1..reg.count : reg.translations[i].hash = checksum}
    IN  IF hits = {} THEN 0 ELSE CHOOSE i \in hits : \A j \in hits : j <= i

\* The loop over registered_embedded_translations: the position of the first
\* translation whose hash is the checksum, 0 when there is none.
find_embedded(reg, checksum) ==
    LET hits == {i \in 1..reg.count : reg.translations[i].hash = checksum}
    IN  IF hits = {} THEN 0 ELSE CHOOSE i \in hits : \A j \in hits : i <= j

\* The loop over translation.mappings: decoder_entry_at(..., mapping.addr)
\* gets the mapping index and the block-end bytecode, whatever the address.
RECURSIVE BindEmbedded(_, _, _, _)
BindEmbedded(c, tbl, mappings, k) ==
    IF k > Len(mappings) THEN tbl
    ELSE LET mp == mappings[k]
             idx == EntryIndex(c, mp.addr)
         IN  BindEmbedded(c,
                 IF idx \in DOMAIN tbl
                 THEN [tbl EXCEPT ![idx].instr = <<mp.mapping_index, 0>>,
                                  ![idx].m_bytecode = "BC_BLOCK_END"]
                 ELSE tbl,
                 mappings, k + 1)

EmbeddedWrites(mappings) ==
    {<<mappings[k].addr, mappings[k].mapping_index>> : k \in 1..Len(mappings)}

\* load_translation from its entry to the computed checksum.  h is the
\* checksum of the segment and the flags; 0 stands for exec.crc32c_hash() = 0.
LdEnter(caller) ==
    \E options \in Options, h \in {0} \cup Checksums :
        LET entered == [LdIdle EXCEPT !.caller = caller, !.calls = ld.calls + 1,
                                      !.options = options]
        IN  IF \/ options.translate_blocks_max = 0
               \/ ~options.translate_enabled /\ ~options.translate_enable_embedded
            THEN /\ bintr' = set_binary_translated(bintr, "NULL", FALSE)
                 /\ ld' = [entered EXCEPT !.stage = "returned", !.ret = -1]
            ELSE IF seg.translated
            THEN /\ ld' = [entered EXCEPT !.stage = "throw", !.err = "ILLEGAL_OPERATION"]
                 /\ UNCHANGED bintr
            ELSE IF h = 0
            THEN /\ ld' = [entered EXCEPT !.stage = "throw", !.err = "INVALID_PROGRAM"]
                 /\ UNCHANGED bintr
            ELSE /\ ld' = [entered EXCEPT !.checksum = h,
                              !.stage = IF options.translate_enable_embedded
                                        THEN "embedded" ELSE "file"]
                 /\ bintr' = [bintr EXCEPT !.translation_hash = h]

\* generate_decoder_cache calls load_translation.
GenLoadTranslation ==
    /\ gen.stage = "translate"
    /\ ld.stage = "idle"
    /\ LdEnter("generate_decoder_cache")
    /\ UNCHANGED <<hvars, dvars, lvars, tvars, hs, registry, mvars, cvars>>

\* The embedder calls load_translation on the constructed segment, once.
LdCall ==
    /\ gen.stage = "done"
    /\ ld.stage \in {"returned", "throw"}
    /\ ld.caller = "generate_decoder_cache"
    /\ lp.stage \in {"idle", "done", "throw"}
    /\ LdEnter("embedder")
    /\ UNCHANGED <<hvars, dvars, lvars, tvars, hs, registry, mvars, cvars>>

\* Check if translation is registered: the loop over the registry, and the
\* binding of the first translation that matches.
LdEmbedded ==
    /\ ld.stage = "embedded"
    /\ LET found == find_embedded(registry, ld.checksum)
           translation == registry.translations[found]
       IN  IF found = 0
           THEN /\ ld' = [ld EXCEPT !.stage = "file"]
                /\ UNCHANGED <<decoder, bintr, seg>>
           ELSE /\ bintr' = [bintr EXCEPT
                                !.mappings = translation.handlers,
                                !.writes = @ \cup EmbeddedWrites(translation.mappings)]
                /\ decoder' = BindEmbedded(cfg, decoder, translation.mappings, 1)
                /\ seg' = [seg EXCEPT !.translated = is_binary_translated(bintr')]
                /\ ld' = [ld EXCEPT !.stage = "returned", !.ret = 0, !.bound = found]
    /\ UNCHANGED <<cfg, gen, fs, hvars, lvars, tvars, hs, registry, mvars, cvars>>

\* From 'if (!options.translate_enabled)' to the call of activate_dylib:
\* readable is the result of access(), opened the result of dlopen().
LdFile ==
    /\ ld.stage = "file"
    /\ IF ~ld.options.translate_enabled
       THEN ld' = [ld EXCEPT !.stage = "returned", !.ret = -1]
       ELSE \E readable \in BOOLEAN, opened \in BOOLEAN :
               LET dylib == IF readable /\ opened /\ lp.stage = "idle"
                            THEN "dylib" ELSE "NULL"
                   events == ld.events \o <<"access">>
                                 \o (IF readable THEN <<"dlopen">> ELSE <<>>)
                   must_compile == dylib = "NULL" \/ ld.options.cross_compile
               IN  IF dylib = "NULL"
                   THEN ld' = [ld EXCEPT !.stage = "returned", !.ret = 1,
                                         !.filename = "set", !.events = events,
                                         !.must_compile = must_compile]
                   ELSE ld' = [ld EXCEPT !.stage = "activate", !.dylib = dylib,
                                         !.events = events,
                                         !.must_compile = must_compile]
    /\ UNCHANGED <<hvars, dvars, lvars, tvars, hs, registry, bintr, mvars, cvars>>

\* activate_dylib has returned or thrown; the end of load_translation.
LdActivated ==
    /\ ld.stage = "activate"
    /\ lp.stage \in {"done", "throw"}
    /\ ld' = IF lp.stage = "throw"
             THEN [ld EXCEPT !.stage = "throw", !.err = lp.err]
             ELSE IF ld.must_compile
             THEN [ld EXCEPT !.stage = "returned", !.ret = 1, !.filename = "set"]
             ELSE [ld EXCEPT !.stage = "returned", !.ret = 0]
    /\ UNCHANGED <<hvars, dvars, lvars, tvars, hs, registry, bintr, mvars, cvars>>

\* generate_decoder_cache after load_translation: an exception leaves it; a
\* segment that is not translated goes through try_translate, whose
\* compilation step either calls activate_dylib now (compiled) or not at all.
GenLoaded ==
    /\ gen.stage = "translate"
    /\ ld.caller = "generate_decoder_cache"
    /\ ld.stage \in {"returned", "throw"}
    /\ IF ld.stage = "throw"
       THEN gen' = [gen EXCEPT !.stage = "throw", !.err = ld.err]
       ELSE IF ~seg.translated /\ lp.stage = "idle"
       THEN \E compiled \in BOOLEAN :
               gen' = [gen EXCEPT !.stage = IF compiled THEN "compile" ELSE "decode"]
       ELSE gen' = [gen EXCEPT !.stage = "decode"]
    /\ UNCHANGED <<cfg, seg, decoder, fs, hvars, lvars, rvars, tvars, mvars, cvars>>

\* The compilation step of try_translate has returned or thrown.
GenCompiled ==
    /\ gen.stage = "compile"
    /\ lp.stage \in {"done", "throw"}
    /\ gen' = IF lp.stage = "throw"
              THEN [gen EXCEPT !.stage = "throw", !.err = lp.err]
              ELSE [gen EXCEPT !.stage = "decode"]
    /\ UNCHANGED <<cfg, seg, decoder, fs, hvars, lvars, rvars, tvars, mvars, cvars>>

\* The translations registered before the segment is constructed: under the
\* first hash one built for a segment at PageSize (handler 101) and one built
\* for the same bytes loaded one page higher (handler 102), under the second
\* hash one for both instructions (handlers 103, 104).
EmbeddedInputs ==
    {EmbeddedTranslation(1, <<[addr |-> PageSize, mapping_index |-> 0]>>, <<101>>),
     EmbeddedTranslation(1, <<[addr |-> 2 * PageSize, mapping_index |-> 0]>>, <<102>>),
     EmbeddedTranslation(2, <<[addr |-> PageSize, mapping_index |-> 0],
                              [addr |-> PageSize + 4, mapping_index |-> 1]>>, <<103, 104>>)}

RECURSIVE RegistryOf(_)
RegistryOf(q) ==
    IF q = <<>> THEN RegistryEmpty
    ELSE register_translation(RegistryOf(SubSeq(q, 1, Len(q) - 1)), q[Len(q)])

\* The registry after the constructors of some, not all, of the translations
\* have run, in any order.
Registries ==
    {RegistryOf(q) : q \in UNION {IterationOrders(S) :
                                     S \in (SUBSET EmbeddedInputs) \ {EmbeddedInputs}}}

\* ADDI x0, x0, 0; BEQ x0, x0, 0 at PageSize.
LoadSegment ==
    [exec_begin |-> PageSize, exec_end |-> PageSize + 8, exec_data |-> <<19, 0, 99, 0>>,
     translated |-> FALSE]

\* A 32-bit build with binary translation and without the C extension.
LoadConfigs == {[c EXCEPT !.bintr = TRUE] : c \in {d \in Configs : d.W = 4 /\ ~d.compressed}}

LoadInit ==
    /\ cfg \in LoadConfigs
    /\ seg = LoadSegment
    /\ decoder = <<>>
    /\ gen = [stage |-> "start", dst |-> 0, was_full_instruction |-> TRUE, err |-> "none"]
    /\ fs = FsIdle
    /\ lp = LpIdle /\ patched = <<>> /\ patched_hist = <<>> /\ reader = ReaderIdle
    /\ TIdle
    /\ instr_handlers = EmptyHandlerTable
    /\ h_ret = [handler |-> NULLH, index |-> 0, err |-> "none"]
    /\ h_hist = [h \in 1..NumHandlers |-> 0]
    /\ hs = HsIdle
    /\ registry \in Registries
    /\ ld = LdIdle
    /\ bintr = BintrNone
    /\ MIdle
    /\ CIdle

LoadNext ==
    \/ GenStart
    \/ GenDecodeStep
    \/ GenCallFastsim
    \/ FsWalkStep
    \/ GenReturn
    \/ GenLoadTranslation
    \/ LdEmbedded
    \/ LdFile
    \/ LpBegin
    \/ LpMapStep
    \/ LpReturn
    \/ LdActivated
    \/ GenLoaded
    \/ GenCompiled
    \/ LdCall

SpecLoad == LoadInit /\ [][LoadNext]_vars

(***************************************************************************)
(* The machine's execute segments: Memory::create_execute_segment,         *)
(* exec_segment_for and evict_execute_segments.  One thread owns the       *)
(* machine, so no call starts while create_execute_segment is running.     *)
(***************************************************************************)

MaxSegments == 3

MaxCreates == 3

\* The element m_exec.emplace_back(pbase, plen, vaddr, exlen) constructs.
ExecSegment(id, vaddr, exlen) ==
    [id |-> id, exec_begin |-> vaddr, exec_end |-> vaddr + exlen]

\* The two tests of create_execute_segment for a bogus virtual base.
bogus_base(vaddr, exlen) ==
    LET PMASK == PageSize - 1
        pbase == vaddr - (vaddr % PageSize)
        prelen == vaddr - pbase
        midlen == exlen + prelen
        plen == ((midlen + PMASK) \div PageSize) * PageSize
    IN  \/ prelen > plen
        \/ prelen + exlen > plen
        \/ pbase + plen < pbase

\* Memory::exec_segment_for: the id of the first segment that holds vaddr, 0
\* for nullptr.
exec_segment_for(m, vaddr) ==
    LET hits == {i \in 1..Len(m) : is_within(m[i], vaddr)}
    IN  IF hits = {} THEN 0 ELSE m[MinOf(hits)].id

\* No call on the segment list is running.
NotConstructing == cr.stage # "constructing" /\ gen.stage \in {"idle", "done", "throw"}

\* create_execute_segment(options, vdata, vaddr, exlen) up to the call of
\* generate_decoder_cache.
CreateExecuteSegment(vaddr, data) ==
    /\ NotConstructing
    /\ Len(m_exec) < MaxSegments
    /\ cr.next_id <= MaxCreates
    /\ LET exlen == 2 * Len(data)
           call == [cr EXCEPT !.op = "create", !.n = 0, !.err = "none",
                              !.before = m_exec, !.cpu_before = cpu_exec]
       IN  IF bogus_base(vaddr, exlen)
           THEN /\ cr' = [call EXCEPT !.stage = "throw", !.err = "INVALID_PROGRAM"]
                /\ UNCHANGED <<m_exec, seg, decoder, gen, fs>>
           ELSE /\ m_exec' = Append(m_exec, ExecSegment(cr.next_id, vaddr, exlen))
                /\ cr' = [call EXCEPT !.stage = "constructing", !.next_id = cr.next_id + 1]
                /\ seg' = [exec_begin |-> vaddr, exec_end |-> vaddr + exlen,
                           exec_data |-> data, translated |-> FALSE]
                /\ decoder' = <<>>
                /\ gen' = [stage |-> "start", dst |-> 0, was_full_instruction |-> TRUE,
                           err |-> "none"]
                /\ fs' = FsIdle
    /\ UNCHANGED <<cfg, cpu_exec, hvars, lvars, rvars, tvars, cvars>>

\* generate_decoder_cache has returned: create_execute_segment returns
\* current_exec.
CreateReturn ==
    /\ cr.stage = "constructing"
    /\ gen.stage = "done"
    /\ cr' = [cr EXCEPT !.stage = "returned"]
    /\ UNCHANGED <<m_exec, cpu_exec, dvars, hvars, lvars, rvars, tvars, cvars>>

\* generate_decoder_cache has thrown: create_execute_segment has no handler,
\* the exception leaves it.
CreateThrow ==
    /\ cr.stage = "constructing"
    /\ gen.stage = "throw"
    /\ cr' = [cr EXCEPT !.stage = "throw", !.err = gen.err]
    /\ UNCHANGED <<m_exec, cpu_exec, dvars, hvars, lvars, rvars, tvars, cvars>>

\* The CPU moves to the segment of pc: set_execute_segment of what
\* exec_segment_for(pc) returns, when that is not nullptr.
CpuSetExecuteSegment(pc) ==
    /\ NotConstructing
    /\ exec_segment_for(m_exec, pc) # 0
    /\ cpu_exec' = exec_segment_for(m_exec, pc)
    /\ cr' = [cr EXCEPT !.stage = "idle", !.op = "jump", !.n = 0, !.err = "none"]
    /\ UNCHANGED <<m_exec, dvars, hvars, lvars, rvars, tvars, cvars>>

\* The CPU's execute segment after the eviction: the first remaining segment
\* when one remains.
evicted_cpu(m, cpu, remaining_size) ==
    IF remaining_size > 0 THEN m[1].id ELSE cpu

\* Memory::evict_execute_segments(remaining_size).
EvictExecuteSegments(remaining_size) ==
    /\ NotConstructing
    /\ cr' = [cr EXCEPT !.stage = "idle", !.op = "evict", !.n = remaining_size,
                        !.err = "none", !.before = m_exec, !.cpu_before = cpu_exec]
    /\ IF Len(m_exec) <= remaining_size
       THEN UNCHANGED <<m_exec, cpu_exec>>
       ELSE /\ m_exec' = SubSeq(m_exec, 1, remaining_size)
            /\ cpu_exec' = evicted_cpu(m_exec, cpu_exec, remaining_size)
    /\ UNCHANGED <<dvars, hvars, lvars, rvars, tvars, cvars>>

\* Segment contents: none, one ADDI, ADDI and BEQ.
CreateDatas == {<<>>, <<19, 0>>, <<19, 0, 99, 0>>}

\* Virtual bases: the first page (at 0 and at 2) and the second page.
CreateBases == {0, 2, PageSize}

MInit ==
    /\ cfg \in {c \in Configs : c.W = 4}
    /\ seg = [exec_begin |-> 0, exec_end |-> 0, exec_data |-> <<>>, translated |-> FALSE]
    /\ decoder = <<>>
    /\ gen = [stage |-> "idle", dst |-> 0, was_full_instruction |-> TRUE, err |-> "none"]
    /\ fs = FsIdle
    /\ LIdle
    /\ RIdle
    /\ MIdle
    /\ CIdle
    /\ TIdle
    /\ instr_handlers \in {EmptyHandlerTable, FullHandlerTable}
    /\ h_ret = [handler |-> NULLH, index |-> 0, err |-> "none"]
    /\ h_hist = [h \in 1..NumHandlers |-> 0]

MNext ==
    \/ \E vaddr \in CreateBases, data \in CreateDatas : CreateExecuteSegment(vaddr, data)
    \/ DNext
    \/ FsWildStep
    \/ CreateReturn
    \/ CreateThrow
    \/ \E pc \in CreateBases : CpuSetExecuteSegment(pc)
    \/ \E n \in 0..MaxSegments : EvictExecuteSegments(n)

SpecSegments == MInit /\ [][MNext]_vars

\* Segments are created one after the other and never evicted.
ConstructNext ==
    \/ \E vaddr \in CreateBases, data \in CreateDatas : CreateExecuteSegment(vaddr, data)
    \/ DNext
    \/ FsWildStep
    \/ CreateReturn
    \/ CreateThrow

\* The steps of a running create_execute_segment are taken as long as one is
\* enabled: the thread that runs the call is scheduled.
SpecConstructFair ==
    /\ MInit
    /\ [][ConstructNext]_vars
    /\ WF_vars(DNext \/ FsWildStep \/ CreateReturn \/ CreateThrow)

(***************************************************************************)
(* The threads of the process in the translator (SpecThreads).  Every      *)
(* thread loads and compiles translations for machines of either width;    *)
(* dlopen_mutex and libtcc_mutex are statics local to member functions of  *)
(* the template CPU<W>, so each instantiation has its own.  The build has  *)
(* libtcc enabled.                                                         *)
(***************************************************************************)

\* load_translation of a CPU<w>: access(filebuffer, R_OK) finds the file of
\* the translation or not; without it the segment must be compiled.
ThLoadTranslation(t, w, found) ==
    /\ th[t].pc = "idle"
    /\ th' = [th EXCEPT ![t] = [pc |-> IF found THEN "lock_dlopen" ELSE "must_compile",
                                W |-> w]]
    /\ UNCHANGED <<dlopen_mutex, libtcc_mutex>>
    /\ UNCHANGED <<dvars, hvars, lvars, rvars, tvars, mvars>>

\* std::lock_guard lock(dlopen_mutex): the thread goes on into dlopen once
\* the mutex of its instantiation is free.
ThDlopenLock(t) ==
    /\ th[t].pc = "lock_dlopen"
    /\ dlopen_mutex[th[t].W] = 0
    /\ dlopen_mutex' = [dlopen_mutex EXCEPT ![th[t].W] = t]
    /\ th' = [th EXCEPT ![t].pc = "dlopen"]
    /\ UNCHANGED libtcc_mutex
    /\ UNCHANGED <<dvars, hvars, lvars, rvars, tvars, mvars>>

\* dlopen returns the library or nullptr; the lock is released at the end of
\* the scope.
ThDlopenReturn(t, dylib) ==
    /\ th[t].pc = "dlopen"
    /\ dlopen_mutex' = [dlopen_mutex EXCEPT ![th[t].W] = 0]
    /\ th' = [th EXCEPT ![t] = IF dylib = "NULL"
                                THEN [pc |-> "must_compile", W |-> th[t].W]
                                ELSE [pc |-> "idle", W |-> 0]]
    /\ UNCHANGED libtcc_mutex
    /\ UNCHANGED <<dvars, hvars, lvars, rvars, tvars, mvars>>

\* compilation_step of try_translate: std::lock_guard lock(libtcc_mutex),
\* then libtcc_compile.
ThCompileLock(t) ==
    /\ th[t].pc = "must_compile"
    /\ libtcc_mutex[th[t].W] = 0
    /\ libtcc_mutex' = [libtcc_mutex EXCEPT ![th[t].W] = t]
    /\ th' = [th EXCEPT ![t].pc = "libtcc_compile"]
    /\ UNCHANGED dlopen_mutex
    /\ UNCHANGED <<dvars, hvars, lvars, rvars, tvars, mvars>>

\* libtcc_compile returns; the lock is released at the end of the scope.
ThCompileReturn(t) ==
    /\ th[t].pc = "libtcc_compile"
    /\ libtcc_mutex' = [libtcc_mutex EXCEPT ![th[t].W] = 0]
    /\ th' = [th EXCEPT ![t] = [pc |-> "idle", W |-> 0]]
    /\ UNCHANGED dlopen_mutex
    /\ UNCHANGED <<dvars, hvars, lvars, rvars, tvars, mvars>>

ThInit ==
    /\ DIdle
    /\ LIdle
    /\ RIdle
    /\ MIdle
    /\ CIdle
    /\ TIdle
    /\ instr_handlers = EmptyHandlerTable
    /\ h_ret = [handler |-> NULLH, index |-> 0, err |-> "none"]
    /\ h_hist = [h \in 1..NumHandlers |-> 0]

ThNext ==
    \E t \in Threads :
        \/ \E w \in Widths, found \in BOOLEAN : ThLoadTranslation(t, w, found)
        \/ ThDlopenLock(t)
        \/ \E dylib \in {"NULL", "handle"} : ThDlopenReturn(t, dylib)
        \/ ThCompileLock(t)
        \/ ThCompileReturn(t)

SpecThreads == ThInit /\ [][ThNext]_vars

(***************************************************************************)
(* Properties of the handler table (SpecHandlers).                         *)
(***************************************************************************)

RECURSIVE InstrStartsFrom(_, _, _)
InstrStartsFrom(c, s, pc) ==
    IF pc >= s.exec_end THEN {}
    ELSE LET length == IF c.compressed
                       THEN InstrLength(read_instruction(s, pc, s.exec_end))
                       ELSE 4
         IN  {pc} \cup InstrStartsFrom(c, s, pc + length)

InstrStarts == InstrStartsFrom(cfg, seg, seg.exec_begin)

EntryAt(pc) == decoder[EntryIndex(cfg, pc)]

GenDone == gen.stage = "done"

\* C2 (decoder-cache soundness): when generate_decoder_cache has returned,
\* every address of the segment that starts an instruction has a decoder entry
\* with a handler index other than 0.
C2_DecoderCacheSoundness ==
    GenDone => \A p \in InstrStarts : EntryAt(p).m_handler # 0

\* C2 witness: a finished cache of a segment with a 32-bit and a 16-bit
\* instruction, both with a handler.
C2_Witness_MixedSegment ==
    /\ GenDone
    /\ cfg.compressed
    /\ \E p, q \in InstrStarts :
        /\ InstrLength(EntryAt(p).instr) = 4
        /\ InstrLength(EntryAt(q).instr) = 2
        /\ EntryAt(p).m_handler # 0
        /\ EntryAt(q).m_handler # 0

\* The half-words right after the start of a 32-bit instruction.
HalfwayPCs ==
    {p + 2 : p \in {q \in InstrStarts :
                      InstrLength(EntryAt(q).instr) = 4 /\ q + 2 < seg.exec_end}}

\* C3 (entries between the halves of a 32-bit instruction): with the C
\* extension, when the cache is built every half-word right after the start
\* of a 32-bit instruction has a decoder entry with handler index 0.
C3_HalfwayEntriesUnset ==
    (GenDone /\ cfg.compressed) => \A p \in HalfwayPCs : EntryAt(p).m_handler = 0

\* C3, what the decode loop does: it gives a handler to the entry of every
\* half-word of the segment, the ones between two halves included.
C3_HalfwayEntriesSet ==
    (GenDone /\ cfg.compressed) => \A p \in HalfwayPCs : EntryAt(p).m_handler # 0

\* C3 witness: a finished cache with a 32-bit instruction wholly inside it.
C3_Witness_HalfwayEntry ==
    GenDone /\ cfg.compressed /\ HalfwayPCs # {}

\* An entry that ends a block of the non-compressed walk.
IsTerminator(p) == IsBlockEnd32(EntryAt(p).instr, EntryAt(p))

\* C4 (fastsim without the C extension): when the cache is built every
\* terminator (BRANCH, JAL, JALR, AUIPC, SYSTEM, block-end sentinel) has
\* idxend 0, and an entry p whose successor p+4 is inside the segment has
\* idxend[p] = idxend[p+4] + 1 unless it or its successor is a terminator.
C4_FastsimNoCompressed ==
    (GenDone /\ ~cfg.compressed) =>
        \A p \in InstrStarts :
            /\ IsTerminator(p) => EntryAt(p).idxend = 0
            /\ (p + 4 \in InstrStarts /\ ~IsTerminator(p)) =>
                    IF IsTerminator(p + 4)
                    THEN EntryAt(p + 4).idxend = 0
                    ELSE EntryAt(p).idxend = EntryAt(p + 4).idxend + 1

\* C4 witness: a finished walk over a block of three entries, the last a
\* terminator, followed by another entry.
C4_Witness_Blocks ==
    /\ GenDone
    /\ ~cfg.compressed
    /\ \E p \in InstrStarts :
        /\ {p + 4, p + 8, p + 12} \subseteq InstrStarts
        /\ ~IsTerminator(p) /\ ~IsTerminator(p + 4) /\ IsTerminator(p + 8)
        /\ EntryAt(p).idxend = 2
        /\ EntryAt(p + 4).idxend = 1
        /\ EntryAt(p + 8).idxend = 0

\* The blocks of the compressed variant, each the list of its entries'
\* addresses, and the address right after the last instruction of a block.
BlockEnd(blk) == blk[Len(blk)] + InstrLength(EntryAt(blk[Len(blk)]).instr)

BlockSet == {fs.blocks[b] : b \in 1..Len(fs.blocks)}

\* C5 (fastsim with the C extension, idxend): when the cache is built, in
\* every block the idxend of an entry is at least the idxend of the next
\* entry of the block, and the last entry of the block has idxend equal to
\* its own length in half-words.
C5_IdxendMonotone ==
    (GenDone /\ cfg.compressed) =>
        \A blk \in BlockSet :
            /\ \A j \in 1..(Len(blk) - 1) :
                    EntryAt(blk[j]).idxend >= EntryAt(blk[j + 1]).idxend
            /\ EntryAt(blk[Len(blk)]).idxend
                    = InstrLength(EntryAt(blk[Len(blk)]).instr) \div 2

\* C5, what the code stores: the half-word distance from the entry to the end
\* of its block, cut to the 8 bits of the field.
C5_IdxendStored ==
    (GenDone /\ cfg.compressed) =>
        \A blk \in BlockSet : \A j \in 1..Len(blk) :
            EntryAt(blk[j]).idxend = ((BlockEnd(blk) - blk[j]) \div 2) % 256

\* C5 witness: a finished block of more than 255 half-words, whose first
\* entry has a smaller idxend than its second.
C5_Witness_LongBlock ==
    /\ GenDone
    /\ cfg.compressed
    /\ \E blk \in BlockSet :
        /\ Len(blk) >= 2
        /\ (BlockEnd(blk) - blk[1]) \div 2 > 255
        /\ EntryAt(blk[1]).idxend < EntryAt(blk[2]).idxend

\* C6 as stated (fastsim with the C extension, instr_count): the instr_count
\* of an entry is the number of instructions left in its block from the
\* entry on, or 255 when more are left.
C6_InstrCountRemaining ==
    (GenDone /\ cfg.compressed) =>
        \A blk \in BlockSet : \A j \in 1..Len(blk) :
            EntryAt(blk[j]).instr_count = Min2(255, Len(blk) - j + 1)

\* C6 as the code has it: the instr_count of an entry is the number of
\* half-words left in its block from the entry on minus the number of
\* instructions left, or 255 when that difference is larger.
C6_InstrCountStored ==
    (GenDone /\ cfg.compressed) =>
        \A blk \in BlockSet : \A j \in 1..Len(blk) :
            EntryAt(blk[j]).instr_count
                = Min2(255, (BlockEnd(blk) - blk[j]) \div 2 - (Len(blk) - j + 1))

\* C6 witness: a finished block with an entry whose count is cut to 255 and
\* an entry whose count is 1, the last 32-bit instruction of the block.
C6_Witness_Counts ==
    /\ GenDone
    /\ cfg.compressed
    /\ \E blk \in BlockSet :
        /\ \E j \in 1..Len(blk) :
            /\ EntryAt(blk[j]).instr_count = 255
            /\ (BlockEnd(blk) - blk[j]) \div 2 - (Len(blk) - j + 1) > 255
        /\ EntryAt(blk[Len(blk)]).instr_count = 1

(***************************************************************************)
(* Properties of live patching (SpecLivePatch).                            *)
(***************************************************************************)

\* C7 (live-patch atomicity): whenever the interpreting CPU dispatches from
\* the patched decoder table, activate_dylib has finished every write to that
\* table and the CPU dispatches on the finished entry.
C7_LivePatchAtomicity ==
    reader.from = "patched" =>
        /\ lp.stage \in {"store", "done"}
        /\ reader.entry = patched[EntryIndex(cfg, reader.pc)]

\* C7, what the order of the stores gives: a dispatch from the patched table
\* whose load returned the present value of the entry comes after every write
\* to the patched table.
C7_PublishedAfterWrites ==
    (reader.from = "patched" /\ ~reader.stale) =>
        /\ lp.stage \in {"store", "done"}
        /\ reader.entry = patched[EntryIndex(cfg, reader.pc)]

\* C7 witness: the CPU has read BC_LIVEPATCH at a patched address and has
\* dispatched on the translator entry of the patched table.
C7_Witness_Swapped ==
    /\ reader.from = "patched"
    /\ ~reader.stale
    /\ reader.entry.m_bytecode = "BC_TRANSLATOR"
    /\ decoder[EntryIndex(cfg, reader.pc)].m_bytecode = "BC_LIVEPATCH"

(***************************************************************************)
(* Properties of the translated functions (SpecTranslate).                 *)
(***************************************************************************)

\* C1 (translation round trip): when a call of a translated function has
\* returned, the registers and the PC are those the interpreter has after
\* interpreting the same instructions, for every program and initial state,
\* programs that read x3 after a gp constant was detected included.
C1_TranslationRoundTrip ==
    run.stage = "returned" =>
        /\ run.regs = interp.regs
        /\ run.pc = interp.pc

\* C1, what holds: the same when the scan has found no gp constant.
C1_RoundTripWithoutGp ==
    (run.stage = "returned" /\ tr.gp = 0) =>
        /\ run.regs = interp.regs
        /\ run.pc = interp.pc

\* C1 witness: a translated function of a segment with a detected gp constant
\* has returned after the code of an instruction that reads x3.
C1_Witness_ReadsGp ==
    /\ run.stage = "returned"
    /\ tr.gp # 0
    /\ run.executed >= 1
    /\ \E i \in 0 .. (ProgLen(tr.prog) - 1) :
          /\ InstrAt(tr.prog, i) = ADDI(5, 3, 0)
          /\ run.pc > PcOf(tr, i)

\* C10 (instruction counting): with the instruction limit not ignored, every
\* return of a translated function, a directly called one included, returns
\* the counter it was passed plus the number of guest instructions executed
\* since, those of the functions it called included.
C10_InstructionCounting ==
    (run.ret.valid /\ ~tr.ignore_instruction_limit) =>
        run.ret.counter = run.ret.counter_in + run.ret.executed

\* C10 witness: a function has returned to the dispatch loop after passing
\* more than ITS_TIME_TO_SPLIT instructions, a direct call of the function of
\* the next block, and the re-entry label behind the call.
C10_Witness_CallAndReentry ==
    /\ run.stage = "returned"
    /\ ~tr.ignore_instruction_limit
    /\ run.ret.depth = 1
    /\ Len(funcs) = 2
    /\ run.ret.executed = ITS_TIME_TO_SPLIT + 2
    /\ run.ret.counter = run.ret.counter_in + ITS_TIME_TO_SPLIT + 2
    /\ run.pc = PcOf(tr, ITS_TIME_TO_SPLIT)

(***************************************************************************)
(* Properties of the block scanner (SpecScan).                              *)
(***************************************************************************)

ScanBlocks == {tr.blocks[k] : k \in 1..Len(tr.blocks)}

Scanning == tr.stage \in {"outer", "inner", "process", "scanned"}

\* C11: every block the block scanner produces contains at least one
\* instruction and ends at or before the end address of the scanned segment,
\* with and without the C extension.
C11_BlocksWithinSegment ==
    Scanning => \A b \in ScanBlocks : b.length >= 1 /\ b.endpc <= tr.endbasepc

\* What the scanner does give: no block is empty, and a block ends at most one
\* half-word past the end of the segment.
C11_BlocksNonEmpty ==
    Scanning => \A b \in ScanBlocks :
        b.length >= 1 /\ b.basepc < b.endpc /\ b.endpc <= tr.endbasepc + 2

\* A block has been produced whose last instruction is fetched from the last
\* half-word of the segment.
C11_Witness_LastHalfword ==
    /\ Scanning
    /\ \E b \in ScanBlocks :
          /\ b.endpc > tr.endbasepc
          /\ b.length >= 1

\* C12: the blocks are pairwise non-overlapping, listed in ascending address
\* order, and cover the scanned range without gaps: the first block starts at
\* the segment base and each later block starts where the previous listed
\* block ended.
C12_BlocksCoverInOrder ==
    Scanning =>
        /\ \A j, k \in 1..Len(tr.blocks) :
              j < k => tr.blocks[j].endpc <= tr.blocks[k].basepc
        /\ Len(tr.blocks) > 0 => tr.blocks[1].basepc = tr.basepc
        /\ \A k \in 2..Len(tr.blocks) : tr.blocks[k].basepc = tr.blocks[k - 1].endpc

\* What the scanner does give: the listed blocks are in ascending order and do
\* not overlap, and they are gapless when the instruction budget is large
\* enough for no block to be left out.
C12_BlocksAscending ==
    Scanning =>
        /\ \A j, k \in 1..Len(tr.blocks) :
              j < k => tr.blocks[j].endpc <= tr.blocks[k].basepc
        /\ tr.translate_instr_max > (tr.endbasepc - tr.basepc) \div 2 =>
              /\ Len(tr.blocks) > 0 => tr.blocks[1].basepc = tr.basepc
              /\ \A k \in 2..Len(tr.blocks) :
                    tr.blocks[k].basepc = tr.blocks[k - 1].endpc

\* A block has been listed after an earlier block of the range was left out.
C12_Witness_BlockLeftOut ==
    /\ Scanning
    /\ Len(tr.blocks) > 0
    /\ tr.blocks[1].basepc > tr.basepc

(***************************************************************************)
(* Properties of the translation hash (SpecHash).                           *)
(***************************************************************************)

HashesDone == hs.stage = "done" /\ Len(hs.hashes) = 2

\* C13: two load_translation runs over segments with identical byte content
\* and identical feature-flag maps compute the same translation hash,
\* whatever the order in which the flag map is iterated.
C13_HashDeterminism ==
    HashesDone => hs.hashes[1] = hs.hashes[2]

\* What the code does give: the two hashes are equal when the two maps are
\* iterated in the same order.
C13_HashOfSameOrder ==
    HashesDone /\ hs.orders[1] = hs.orders[2] => hs.hashes[1] = hs.hashes[2]

\* Two runs over the same segment and the same map of two or more flags,
\* iterated in different orders, have both stored their hash.
C13_Witness_TwoOrders ==
    /\ HashesDone
    /\ Cardinality(hs.flags) >= 2
    /\ hs.orders[1] # hs.orders[2]

(***************************************************************************)
(* Properties of the registry of embedded translations (SpecRegistry).      *)
(***************************************************************************)

\* C16: the registry never holds more than 12 translations: each of the first
\* 12 register_translation calls stores its translation, and a call made when
\* 12 are stored fails with INVALID_PROGRAM and leaves the count and the 12
\* stored translations unchanged.
C16_RegistryCapacity ==
    [][/\ registry'.count <= 12
       /\ Len(registry'.translations) = registry'.count
       /\ registry.count < 12 =>
             /\ registry'.count = registry.count + 1
             /\ registry'.err = "none"
             /\ SubSeq(registry'.translations, 1, registry.count) = registry.translations
       /\ registry.count = 12 =>
             /\ registry'.err = "INVALID_PROGRAM"
             /\ registry'.count = 12
             /\ registry'.translations = registry.translations]_registry

\* Twelve translations are stored and a thirteenth call has failed.
C16_Witness_ThirteenthCall ==
    /\ registry.count = 12
    /\ registry.err = "INVALID_PROGRAM"
    /\ \E i, j \in 1..12 : registry.translations[i].hash # registry.translations[j].hash

(***************************************************************************)
(* Properties of load_translation and of the activation during the          *)
(* construction of a segment (SpecLoad).                                    *)
(***************************************************************************)

\* The step is a call of load_translation.
LoadCalled == ld'.calls = ld.calls + 1

\* The mappings of the activated dylib that activate_dylib has applied: the
\* address is within the segment and the handler is not null.
AppliedMappings ==
    {j \in 1..lp.i :
        /\ is_within(seg, lp.mappings[j].addr)
        /\ lp.handlers[lp.mappings[j].mapping_index + 1] # NULLH}

\* The decoder entry of every applied mapping holds the mapping index and the
\* block-end bytecode.
DylibBindingPresent ==
    \A j \in AppliedMappings :
        LET entry == decoder[EntryIndex(cfg, lp.mappings[j].addr)]
        IN  /\ entry.instr = <<lp.mappings[j].mapping_index, 0>>
            /\ entry.m_bytecode = "BC_BLOCK_END"

\* A dylib was activated without live-patching and its mapping loop is over.
ActivatedNonLive ==
    lp.stage = "done" /\ lp.initialized /\ ~lp.live_patch

\* C14: load_translation called on a segment that is already binary
\* translated fails with ILLEGAL_OPERATION, under any option values, and does
\* not change or clear the segment's translation binding.
C14_DoubleTranslationFails ==
    [][LoadCalled /\ seg.translated =>
          /\ ld'.stage = "throw"
          /\ ld'.err = "ILLEGAL_OPERATION"
          /\ bintr' = bintr
          /\ seg' = seg
          /\ decoder' = decoder]_vars

\* What the code does give: the same, when the options do not disable the
\* translator.
C14_DoubleTranslationFailsWhenEnabled ==
    [][/\ LoadCalled
       /\ seg.translated
       /\ ld'.options.translate_blocks_max # 0
       /\ ld'.options.translate_enabled \/ ld'.options.translate_enable_embedded
       => /\ ld'.stage = "throw"
          /\ ld'.err = "ILLEGAL_OPERATION"
          /\ bintr' = bintr
          /\ seg' = seg
          /\ decoder' = decoder]_vars

\* load_translation was called on a segment bound to a dylib and has returned
\* -1, and the segment has lost its dylib handle without a dylib_close.
C14_Witness_BindingCleared ==
    /\ ld.caller = "embedder"
    /\ ld.stage = "returned"
    /\ ld.ret = -1
    /\ seg.translated
    /\ ActivatedNonLive
    /\ bintr.dylib = "NULL"
    /\ bintr.closed = 0

\* C15: a dylib without an init symbol is not an error: activate_dylib raises
\* no exception, closes the dylib, leaves the segment not binary translated,
\* and modifies no decoder entry and no mapping table.
C15_FailedInitIsNotAnError ==
    [][lp.stage = "idle" /\ lp'.stage # "idle" /\ ~lp'.initialized =>
          /\ lp'.stage = "done"
          /\ lp'.err = "none"
          /\ bintr'.closed = bintr.closed + 1
          /\ bintr'.dylib = "NULL"
          /\ ~seg'.translated
          /\ decoder' = decoder
          /\ patched' = patched
          /\ bintr'.mappings = bintr.mappings]_vars

\* The activation of a dylib without init has returned, and the construction
\* of the segment has completed with no translation bound.
C15_Witness_InterpretedOnly ==
    /\ lp.stage = "done"
    /\ ~lp.initialized
    /\ bintr.closed = 1
    /\ gen.stage = "done"
    /\ ~seg.translated
    /\ \A k \in DOMAIN decoder : decoder[k].m_bytecode # "BC_BLOCK_END"

\* C17: after the construction of the segment has completed with a
\* translation activated without live-patching, every in-segment mapped guest
\* PC with a non-null handler has a decoder entry whose instr field is its
\* mapping index and whose bytecode is the block-end hint.
C17_BindingSurvivesConstruction ==
    gen.stage = "done" /\ ActivatedNonLive => DylibBindingPresent

\* What the code does give: the binding is there when activate_dylib
\* returns, before the decode loop starts.
C17_BindingBeforeDecodeLoop ==
    gen.stage \in {"translate", "compile"} /\ ActivatedNonLive => DylibBindingPresent

\* The construction has completed after a non-live activation that applied a
\* mapping.
C17_Witness_ConstructedWithBinding ==
    /\ gen.stage = "done"
    /\ ActivatedNonLive
    /\ AppliedMappings # {}

\* C19: no translation-binding path writes a decoder entry for a guest
\* address outside [exec_begin, exec_end) or stores a mapping index that is
\* not an index into the segment's mapping table, neither the activation of
\* a dylib nor the binding of a matching embedded translation.
C19_BindingWithinSegment ==
    /\ \A w \in bintr.writes :
          /\ is_within(seg, w[1])
          /\ w[2] < Len(bintr.mappings)
    /\ lp.stage \in {"map", "done"} /\ ~lp.live_patch =>
          \A j \in AppliedMappings : lp.mappings[j].mapping_index < Len(bintr.mappings)

\* What the code does give: the activation of a dylib whose mapping indices
\* are below no_handlers stays within the segment and the mapping table.
C19_DylibBindingWithinSegment ==
    lp.stage \in {"map", "done"} /\ ~lp.live_patch =>
        /\ \A j \in AppliedMappings : lp.mappings[j].mapping_index < Len(bintr.mappings)
        /\ \A k \in DOMAIN decoder :
              decoder[k].m_bytecode = "BC_BLOCK_END" /\ bintr.writes = {} =>
                  \E a \in EntryAddrs(cfg, seg) : EntryIndex(cfg, a) = k

\* An embedded translation has been bound whose mapping lies outside the
\* execute range of the segment.
C19_Witness_EmbeddedOutside ==
    /\ ld.stage = "returned"
    /\ ld.ret = 0
    /\ ld.bound > 0
    /\ \E w \in bintr.writes : ~is_within(seg, w[1])

\* The registered translations that have the segment's hash.
EmbeddedHits == {i \in 1..registry.count : registry.translations[i].hash = ld.checksum}

\* C20: when embedded translations are enabled and a registered translation
\* has the segment's hash, load_translation (once it has computed the hash)
\* binds the earliest registered one and returns 0, without any lookup of an
\* on-disk dylib and without requesting a compilation; the on-disk dylib is
\* consulted only when no embedded translation matched.
C20_ResolutionOrder ==
    /\ ld.stage = "embedded" => ld.events = <<>>
    /\ ld.events # <<>> =>
          ~(ld.options.translate_enable_embedded /\ EmbeddedHits # {})
    /\ /\ ld.stage \in {"file", "activate", "returned", "throw"}
       /\ ld.checksum # 0
       /\ ld.options.translate_enable_embedded
       /\ EmbeddedHits # {}
       => /\ ld.stage = "returned"
          /\ ld.ret = 0
          /\ ld.bound = MinOf(EmbeddedHits)
          /\ bintr.mappings = registry.translations[MinOf(EmbeddedHits)].handlers
          /\ ld.events = <<>>
          /\ ld.filename = "unset"
          /\ ~ld.must_compile

\* load_translation has bound the first of two registered translations that
\* share the segment's hash, with the on-disk lookup enabled as well.
C20_Witness_TwoShareTheHash ==
    /\ ld.stage = "returned"
    /\ ld.ret = 0
    /\ ld.bound = 1
    /\ Cardinality(EmbeddedHits) >= 2
    /\ ld.options.translate_enabled

(***************************************************************************)
(* Properties of the backward walk of live-patching (SpecLivePatch).       *)
(***************************************************************************)

\* The step applies the next mapping to the patched table: live-patching,
\* the address within the segment, the handler not null, nothing thrown.
LivePatchApplied ==
    /\ lp.stage = "map"
    /\ lp.live_patch
    /\ lp'.stage = "map"
    /\ lp'.i = lp.i + 1
    /\ Len(lp'.livepatch_bintr) = Len(lp.livepatch_bintr) + 1

\* The instruction that starts at p ends a fastsim block: it is one of the
\* instructions realize_fastsim breaks at, or an entry live-patching has
\* already turned into a translator entry.
EndsFastsimBlock(p) ==
    LET instruction == read_instruction(seg, p, seg.exec_end)
    IN  \/ IF cfg.compressed /\ InstrLength(instruction) = 2
           THEN ~is_regular_compressed(cfg.W, instruction[1])
           ELSE IsBlockEnd32(instruction, EntryAt(p))
        \/ patched[EntryIndex(cfg, p)].m_bytecode = "BC_TRANSLATOR"

\* The address of the first instruction of the fastsim block that holds the
\* instruction starting at a.
FastsimBlockStart(a) ==
    LET ends == {p \in InstrStarts : p < a /\ EndsFastsimBlock(p)}
    IN  IF ends = {} THEN seg.exec_begin
        ELSE LET e == CHOOSE x \in ends : \A y \in ends : y <= x
             IN  MinOf({p \in InstrStarts : p > e})

\* What the claim says of the step that applies the mapping of target a: the
\* walk stops at the first entry of the block of a, afterwards every entry
\* from there up to the target holds its entry distance to the target, and
\* the target entry is the translator entry of the mapping.
LivePatchRewritesBlock ==
    LET mp == lp.mappings[lp.i + 1]
        last == EntryIndex(cfg, mp.addr)
        first == EntryIndex(cfg, FastsimBlockStart(mp.addr))
    IN  /\ LpBlockBegin(cfg, patched, last, EntryIndex(cfg, seg.exec_begin),
                        block_bytes(cfg, patched[last])) = first
        /\ \A k \in first..(last - 1) : patched'[k].idxend = last - k
        /\ patched'[last].idxend = 0
        /\ patched'[last].m_bytecode = "BC_TRANSLATOR"
        /\ patched'[last].instr = <<mp.mapping_index, 0>>

\* C18: for each applied mapping target (the address of an instruction), the
\* backward walk of live-patching stops exactly at the first entry of the
\* fastsim block containing the target; after patching every entry from that
\* block start up to the target has idxend equal to its entry distance to
\* the target, and the target entry has idxend 0, bytecode BC_TRANSLATOR and
\* instr equal to the mapping index; for any order of the mappings, with and
\* without the C extension.
C18_LivePatchBlockWalk ==
    [][LivePatchApplied /\ lp.mappings[lp.i + 1].addr \in InstrStarts
          => LivePatchRewritesBlock]_vars

\* What the code does give: the same when no 32-bit instruction of a build
\* with the C extension lies between the block start and the target (always
\* so without the C extension).
C18_LivePatchBlockWalkNoHalfway ==
    [][/\ LivePatchApplied
       /\ lp.mappings[lp.i + 1].addr \in InstrStarts
       /\ cfg.compressed =>
             \A p \in InstrStarts :
                 (FastsimBlockStart(lp.mappings[lp.i + 1].addr) <= p
                     /\ p < lp.mappings[lp.i + 1].addr)
                 => InstrLength(read_instruction(seg, p, seg.exec_end)) = 2
       => LivePatchRewritesBlock]_vars

\* With the C extension a single mapping was live-patched onto an
\* instruction whose block holds a 32-bit instruction before it, and the
\* first entry of the block does not hold its distance to the target.
C18_Witness_BlockStartNotReached ==
    /\ cfg.compressed
    /\ lp.stage = "done"
    /\ lp.live_patch
    /\ Len(lp.mappings) = 1
    /\ LET a == lp.mappings[1].addr
           last == EntryIndex(cfg, a)
       IN  /\ a \in InstrStarts
           /\ patched[last].m_bytecode = "BC_TRANSLATOR"
           /\ \E p \in InstrStarts :
                 /\ p < a
                 /\ \A q \in InstrStarts : (p <= q /\ q < a) => ~EndsFastsimBlock(q)
                 /\ patched[EntryIndex(cfg, p)].idxend # last - EntryIndex(cfg, p)

(***************************************************************************)
(* Properties of the segment list and of realize_fastsim on any base       *)
(* (SpecSegments, SpecSegmentsFair).                                       *)
(***************************************************************************)

\* realize_fastsim runs on a segment that is not empty.
FastsimRuns == gen.stage = "fastsim" /\ seg.exec_end > seg.exec_begin

\* The PC realize_fastsim is visiting lies in the segment.
FastsimVisitsSegment ==
    fs.stage \in {"measure", "walk", "wild"} => is_within(seg, fs.pc)

\* C28: realize_fastsim terminates for every non-empty segment whatever its
\* base address, also without the C extension when exec_begin is below 4, and
\* never visits a PC outside the segment.
C28_FastsimTerminates ==
    /\ [](FastsimRuns => FastsimVisitsSegment)
    /\ (FastsimRuns ~> gen.stage = "done")

\* What the code does give: the same with the C extension, and without it for
\* segments whose base is 4 or more.
C28_FastsimTerminatesFromFour ==
    /\ [](FastsimRuns /\ (cfg.compressed \/ seg.exec_begin >= 4) => FastsimVisitsSegment)
    /\ ((FastsimRuns /\ (cfg.compressed \/ seg.exec_begin >= 4)) ~> gen.stage = "done")

\* Without the C extension the walk over a non-empty segment at a base below
\* 4 has wrapped below address 0.
C28_Witness_Wrapped ==
    /\ FastsimRuns
    /\ ~cfg.compressed
    /\ seg.exec_begin < 4
    /\ fs.stage = "wild"
    /\ fs.pc < 0

\* create_execute_segment has failed with an exception.
CreateFailed == cr.op = "create" /\ cr.stage = "throw"

\* C29: if create_execute_segment fails with an exception, the machine's list
\* of execute segments is the same as before the call, and no partially
\* constructed segment can be returned by exec_segment_for.
C29_FailedCreateLeavesList ==
    CreateFailed =>
        /\ m_exec = cr.before
        /\ \A a \in 0..(2 * PageSize) :
              exec_segment_for(m_exec, a) = exec_segment_for(cr.before, a)

\* What the code does give: the segments registered before the call are all
\* still there, in their order, followed by at most the new one.
C29_FailedCreateKeepsOlder ==
    CreateFailed =>
        /\ Len(m_exec) \in {Len(cr.before), Len(cr.before) + 1}
        /\ SubSeq(m_exec, 1, Len(cr.before)) = cr.before

\* create_execute_segment has failed for want of handler slots and the
\* segment it was constructing is what exec_segment_for returns for its base.
C29_Witness_HalfBuiltFound ==
    /\ CreateFailed
    /\ cr.err = "MAX_INSTRUCTIONS_REACHED"
    /\ Len(m_exec) = Len(cr.before) + 1
    /\ exec_segment_for(cr.before, seg.exec_begin) = 0
    /\ exec_segment_for(m_exec, seg.exec_begin) = m_exec[Len(m_exec)].id

\* evict_execute_segments has returned.
Evicted == cr.op = "evict"

\* The ids of the segments the latest eviction removed.
RemovedIds ==
    {cr.before[i].id : i \in 1..Len(cr.before)} \ {m_exec[i].id : i \in 1..Len(m_exec)}

\* C30: after evict_execute_segments(n), for every n >= 0, at most n execute
\* segments remain, the oldest ones, and the CPU's current execute segment is
\* none of the removed segments.
C30_EvictKeepsOldest ==
    Evicted =>
        /\ Len(m_exec) <= cr.n
        /\ m_exec = SubSeq(cr.before, 1, Min2(cr.n, Len(cr.before)))
        /\ cpu_exec \notin RemovedIds

\* What the code does give: the same for every n >= 1.
C30_EvictKeepsOldestFromOne ==
    (Evicted /\ cr.n >= 1) =>
        /\ Len(m_exec) <= cr.n
        /\ m_exec = SubSeq(cr.before, 1, Min2(cr.n, Len(cr.before)))
        /\ cpu_exec \notin RemovedIds

\* evict_execute_segments(0) has removed the segment the CPU is in.
C30_Witness_CpuInRemoved ==
    /\ Evicted
    /\ cr.n = 0
    /\ m_exec = <<>>
    /\ cr.cpu_before # 0
    /\ cpu_exec \in RemovedIds

(***************************************************************************)
(* Properties of the GP scan (SpecTranslate).                              *)
(***************************************************************************)

\* The GP scan of try_translate is over.
GpScanned == tr.stage \notin {"idle", "start"}

\* The indices of the AUIPCs with rd = x3 of the segment.
AuipcGpAt == {i \in 0 .. (ProgLen(tr.prog) - 1) :
                 InstrAt(tr.prog, i).op = RV32I_AUIPC /\ InstrAt(tr.prog, i).rd = 3}

\* The instruction of index i is ADDI x3, x3, imm.
IsAddiGpGp(i) ==
    LET addi == InstrAt(tr.prog, i)
    IN  addi.op = RV32I_OP_IMM /\ addi.funct3 = 0 /\ addi.rd = 3 /\ addi.rs1 = 3

\* The instruction of index i is an ADDI of other registers.
IsOtherAddi(i) ==
    LET addi == InstrAt(tr.prog, i)
    IN  addi.op = RV32I_OP_IMM /\ addi.funct3 = 0 /\ ~(addi.rd = 3 /\ addi.rs1 = 3)

\* gp as computed from the AUIPC of index i.
GpFrom(i) ==
    IF IsAddiGpGp(i + 1)
    THEN PcOf(tr, i) + InstrAt(tr.prog, i).imm + InstrAt(tr.prog, i + 1).imm
    ELSE PcOf(tr, i) + InstrAt(tr.prog, i).imm

\* C25: GP detection uses the first AUIPC with rd = x3 of the segment: gp is
\* pc + auipc.imm + addi.imm when ADDI x3, x3 follows it, otherwise
\* pc + auipc.imm, and no later instruction affects gp.
C25_GpFromFirstAuipc ==
    (GpScanned /\ AuipcGpAt # {}) => tr.gp = GpFrom(MinOf(AuipcGpAt))

\* What the code does give: an AUIPC x3 that is followed by an ADDI of other
\* registers is passed over; gp comes from the first AUIPC x3 that is not,
\* and stays 0 when there is none.
C25_GpFromFirstAccepted ==
    GpScanned =>
        LET accepted == {i \in AuipcGpAt : ~IsOtherAddi(i + 1)}
        IN  tr.gp = IF accepted = {} THEN 0 ELSE GpFrom(MinOf(accepted))

\* The scan is over on a segment whose first AUIPC x3 is followed by an ADDI
\* of other registers, and gp is not the address that AUIPC computes.
C25_Witness_AuipcPassedOver ==
    /\ GpScanned
    /\ AuipcGpAt # {}
    /\ IsOtherAddi(MinOf(AuipcGpAt) + 1)
    /\ tr.gp # PcOf(tr, MinOf(AuipcGpAt)) + InstrAt(tr.prog, MinOf(AuipcGpAt)).imm

(***************************************************************************)
(* Properties of the emitted control flow (SpecEmit).                      *)
(***************************************************************************)

\* Every label the function jumps to, from a goto or from a case of the
\* switch of its header, is defined exactly once in the function.
TargetsDefinedOnce(fn) ==
    \A a \in GotoTargets(fn.code) \cup SwitchTargets(fn) : LabelCount(fn.code, a) = 1

\* The raw target of every JAL of the segment is a multiple of 4.
JalTargetsAligned ==
    \A i \in 0 .. (ProgLen(tr.prog) - 1) :
        InstrAt(tr.prog, i).op = RV32I_JAL => (PcOf(tr, i) + InstrAt(tr.prog, i).imm) % 4 = 0

\* C27: in every emitted block function every goto and every case of the
\* entry switch targets a label defined exactly once in that function, also
\* for jumps whose raw target is not a multiple of the instruction stride.
C27_GotosHaveLabels ==
    \A k \in 1 .. Len(funcs) : TargetsDefinedOnce(funcs[k])

\* What does hold: the functions of a segment whose JALs all have aligned
\* raw targets are well formed.
C27_GotosHaveLabelsAlignedJal ==
    JalTargetsAligned => \A k \in 1 .. Len(funcs) : TargetsDefinedOnce(funcs[k])

\* The compiler was handed a function with a goto to a label that the
\* function does not define.
C27_Witness_GotoWithoutLabel ==
    /\ tr.stage = "rejected"
    /\ \E k \in 1 .. Len(funcs) :
         \E a \in GotoTargets(funcs[k].code) : LabelCount(funcs[k].code, a) = 0


\* emit() has just emitted the code of the instruction of index em.i.
EmittedOne == em.stage = "emit" /\ em'.stage = "emit" /\ em'.i = em.i + 1

\* The instruction of index i is a JAL / a BRANCH whose destination is not a
\* multiple of 4 (alignment mask 3, no C extension).
MisalignedJal(i) ==
    /\ InstrAt(tr.prog, i).op = RV32I_JAL
    /\ (PcOf(tr, i) + InstrAt(tr.prog, i).imm) % 4 # 0

MisalignedBranch(i) ==
    /\ InstrAt(tr.prog, i).op = RV32I_BRANCH
    /\ (PcOf(tr, i) + InstrAt(tr.prog, i).imm) % 4 # 0

\* The index in the segment of the instruction emit() is at.
EmIdx == IdxOf(tr, em.basepc) + em.i

\* The statements emit() has just added for one instruction.
AddedCode == {em'.code[p] : p \in (Len(em.code) + 1) .. Len(em'.code)}

\* The statement moves control to a label or another function, or sets
\* cpu->pc to an address before it returns.
Transfers(st) ==
    \/ st.k \in {"goto", "loop", "if_goto", "if_loop", "if_exit", "call", "reenter"}
    \/ st.k = "exit" /\ st.a = 1

\* C22: the code emitted for a BRANCH or a JAL whose destination violates the
\* alignment mask raises MISALIGNED_INSTRUCTION and neither transfers control
\* to nor sets cpu->pc to any other address.
C22_MisalignedJumpRaises ==
    [][(EmittedOne /\ (MisalignedJal(EmIdx) \/ MisalignedBranch(EmIdx)))
          => /\ \E st \in AddedCode : st.k = "if_exception"
             /\ \A st \in AddedCode : ~Transfers(st)]_vars

\* What does hold: the code of a BRANCH with a misaligned destination is the
\* exception, taken when the condition holds, and no transfer.
C22_MisalignedBranchRaises ==
    [][(EmittedOne /\ MisalignedBranch(EmIdx))
          => /\ \E st \in AddedCode : st.k = "if_exception"
             /\ \A st \in AddedCode : ~Transfers(st)]_vars

\* The function of JAL x1, +6; ADDI x5, x5, 1 at 0x1000 was called at its
\* start and returned after both instructions with the PC after the ADDI:
\* the JAL to 0x1006 went on at 0x1004.
C22_Witness_MisalignedJalTaken ==
    /\ run.stage = "returned"
    /\ tr.prog = [nops |-> 0, body |-> <<JAL(1, 6), ADDI(5, 5, 1)>>]
    /\ run.executed = 2
    /\ run.regs[1] = PcOf(tr, 1)
    /\ run.pc = PcOf(tr, 2)


\* Code generation is over and no emitted function has been called yet.
EmitOver == tr.stage \in {"compiled", "rejected"} /\ run.stage = "idle"

\* The indices of the instructions of the block of function fn but the last.
InnerIdxs(fn) == IdxOf(tr, fn.basepc) .. (IdxOf(tr, fn.endpc) - 2)

IsEcall(instr) == instr.op = RV32I_SYSTEM /\ instr.funct3 = 0 /\ instr.imm < 2

IsStop(instr) ==
    instr.op = RV32I_SYSTEM /\ instr.funct3 = 0 /\ (instr.imm = 261 \/ instr.imm = 2047)

\* The JAL of index i of the block of fn is emitted as a call of the function
\* of another block.
CallsBlock(fn, i) ==
    LET dest_pc == PcOf(tr, i) + InstrAt(tr.prog, i).imm
    IN  /\ InstrAt(tr.prog, i).op = RV32I_JAL
        /\ dest_pc % 4 = 0
        /\ ~(dest_pc >= fn.basepc /\ dest_pc < fn.endpc)
        /\ dest_pc \in tr.global_jump_locations
        /\ within_segment(dest_pc)
        /\ find_block_base(dest_pc) # 0
        /\ dest_pc > PcOf(tr, i)

\* The address after the instruction of index i is a mapping of fn: a case
\* of its switch and a label of its code.
NextIsMapped(fn, i) ==
    /\ PcOf(tr, i + 1) \in SeqRange(fn.mappings)
    /\ LabelCount(fn.code, PcOf(tr, i + 1)) = 1

\* C23: for every ECALL/EBREAK, every JAL that links or calls another block,
\* every JALR and every WFI/STOP that is not the last instruction of its
\* block, the PC of the following instruction is a mapping of the function.
C23_ReentryPointsMapped ==
    EmitOver =>
        \A k \in 1 .. Len(funcs) : \A i \in InnerIdxs(funcs[k]) :
            LET instr == InstrAt(tr.prog, i)
            IN  (\/ IsEcall(instr)
                 \/ instr.op = RV32I_JAL /\ instr.rd # 0
                 \/ CallsBlock(funcs[k], i)
                 \/ instr.op = RV32I_JALR
                 \/ IsStop(instr)) => NextIsMapped(funcs[k], i)

\* What does hold: the re-entry point exists after every JAL that links,
\* every JALR and every WFI/STOP that is not the last of its block.
C23_ReentryAfterLinkJalrStop ==
    EmitOver =>
        \A k \in 1 .. Len(funcs) : \A i \in InnerIdxs(funcs[k]) :
            LET instr == InstrAt(tr.prog, i)
            IN  (\/ instr.op = RV32I_JAL /\ instr.rd # 0
                 \/ instr.op = RV32I_JALR
                 \/ IsStop(instr)) => NextIsMapped(funcs[k], i)

\* A system call stopped the machine inside a block: the function returned
\* with the PC after the ECALL, inside the block, and no emitted function has
\* a mapping for that PC.
C23_Witness_EcallNextNotMapped ==
    /\ run.stage = "returned"
    /\ IsEcall(InstrAtPc(tr, run.pc - 4))
    /\ run.ret.max_counter = 0
    /\ \E k \in 1 .. Len(funcs) : run.pc >= funcs[k].basepc /\ run.pc < funcs[k].endpc
    /\ \A k \in 1 .. Len(funcs) : run.pc \notin SeqRange(funcs[k].mappings)


\* A direct call is emitted only for a JAL whose destination is a recorded
\* global JAL target inside the segment, after the JAL, in a scanned block,
\* and the function called is the one of that block.
CallEmittedForForwardJal ==
    EmittedOne =>
        \A st \in AddedCode : st.k = "call" =>
            /\ InstrAt(tr.prog, EmIdx).op = RV32I_JAL
            /\ st.b \in tr.global_jump_locations
            /\ st.b >= tr.basepc /\ st.b < tr.endbasepc
            /\ st.b > PcOf(tr, EmIdx)
            /\ ~(st.b >= em.basepc /\ st.b < em.endpc)
            /\ \E k \in 1 .. Len(tr.blocks) :
                 /\ st.b >= tr.blocks[k].basepc /\ st.b < tr.blocks[k].endpc
                 /\ st.a = tr.blocks[k].basepc

\* The fast path after a direct call is emitted only for a JAL that links
\* and is not the last instruction of its block, and leads to the
\* instruction after the JAL.
FastPathEmittedForLink ==
    EmittedOne =>
        \A st \in AddedCode : st.k = "reenter" =>
            /\ InstrAt(tr.prog, EmIdx).op = RV32I_JAL
            /\ InstrAt(tr.prog, EmIdx).rd # 0
            /\ \E c \in AddedCode : c.k = "call"
            /\ st.a = PcOf(tr, EmIdx + 1)
            /\ st.a < em.endpc

\* The emitted code executes one statement.
RunStepped == run.stage = "running" /\ run'.steps = run.steps + 1

\* The function of a direct call returns to its caller.
CalleeReturns ==
    RunStepped /\ Len(run.frames) >= 2 /\ Len(run'.frames) = Len(run.frames) - 1

\* The statement the top frame is at.
TopStatement ==
    LET fr == run.frames[Len(run.frames)]
    IN  funcs[fr.f].code[fr.ip]

\* The step takes the fast path after a direct call / leaves it for the
\* exit that keeps cpu->pc.
TakesFastPath ==
    LET n == Len(run.frames)
        fr == run.frames[n]
    IN  /\ Len(run'.frames) = n
        /\ run'.frames[n].ip = LabelIp(funcs[fr.f].code, TopStatement.a)

LeavesToExit ==
    LET n == Len(run.frames)
        fr == run.frames[n]
    IN  /\ Len(run'.frames) = n
        /\ run'.frames[n].ip = fr.ip + 1
        /\ funcs[fr.f].code[fr.ip + 1].k = "exit"
        /\ funcs[fr.f].code[fr.ip + 1].a = 0
        /\ run'.pc = run.pc

\* C24: a direct call is emitted only for a JAL whose destination is a
\* recorded global JAL target inside the segment, strictly after the JAL and
\* in a scanned block; after the call returns the caller adopts the returned
\* counter and max_counter, and it continues at the instruction after the JAL
\* only if cpu->pc equals that PC and counter < max_counter, otherwise it
\* returns to the dispatcher with cpu->pc as the callee left it.
C24_DirectCall ==
    [][/\ CallEmittedForForwardJal
       /\ CalleeReturns =>
            LET caller == run'.frames[Len(run'.frames)]
            IN  /\ caller.counter = run'.ret.counter
                /\ caller.max_counter = run'.ret.max_counter
       /\ (RunStepped /\ TopStatement.k = "reenter") =>
            LET fr == run.frames[Len(run.frames)]
            IN  IF run.pc = TopStatement.a /\ fr.counter < fr.max_counter
                THEN TakesFastPath ELSE LeavesToExit]_vars

\* C24 as amended: with the instruction limit ignored the caller adopts only
\* the returned max_counter and the fast path tests only cpu->pc.
C24_DirectCallLimitAware ==
    [][/\ CallEmittedForForwardJal
       /\ FastPathEmittedForLink
       /\ CalleeReturns =>
            LET caller == run'.frames[Len(run'.frames)]
            IN  /\ ~tr.ignore_instruction_limit => caller.counter = run'.ret.counter
                /\ tr.ignore_instruction_limit =>
                       caller.counter = run.frames[Len(run'.frames)].counter
                /\ caller.max_counter = run'.ret.max_counter
       /\ (RunStepped /\ TopStatement.k = "reenter") =>
            LET fr == run.frames[Len(run.frames)]
            IN  IF /\ run.pc = TopStatement.a
                   /\ (tr.ignore_instruction_limit \/ fr.counter < fr.max_counter)
                THEN TakesFastPath ELSE LeavesToExit]_vars

\* The function of a direct call has returned and its caller has taken the
\* fast path: it is at the label of the instruction after the JAL, which is
\* where cpu->pc points.
C24_Witness_FastPathTaken ==
    /\ run.stage = "running"
    /\ Len(run.frames) = 1
    /\ run.ret.valid /\ run.ret.depth = 2
    /\ LET fr == run.frames[1]
           code == funcs[fr.f].code
       IN  /\ code[fr.ip].k = "label"
           /\ code[fr.ip].a = run.pc
           /\ \E p \in 1 .. (fr.ip - 1) : code[p].k = "reenter" /\ code[p].a = run.pc


(***************************************************************************)
(* Properties of the loops of the emitted code (SpecLoops).                *)
(***************************************************************************)

\* The statements emitted for one instruction jump backwards (to the
\* instruction itself or to an earlier one) only under the test
\* counter < max_counter, and each such jump comes right after a statement
\* that adds at least 1 to counter.
BackwardJumpsGuarded ==
    (EmittedOne /\ ~tr.ignore_instruction_limit) =>
        /\ \A st \in AddedCode :
             /\ st.k = "if_goto" => st.b > PcOf(tr, EmIdx)
             /\ st.k = "goto" => st.a > PcOf(tr, EmIdx)
        /\ \A p \in (Len(em.code) + 1) .. Len(em'.code) :
             em'.code[p].k \in {"loop", "if_loop"} =>
                 /\ p > 1
                 /\ em'.code[p - 1].k = "count"
                 /\ em'.code[p - 1].a >= 1

\* A run of an emitted function is over: it returned to the dispatcher or
\* raised an exception.
RunOver == run.stage \in {"returned", "exception"}

\* C21: with the instruction limit in force every backward goto emitted for
\* a BRANCH or JAL is guarded by counter < max_counter and every cycle
\* through it adds at least 1 to counter, so a function called with a finite
\* max_counter always eventually returns to the dispatcher.
C21_LoopsTerminate ==
    /\ [][BackwardJumpsGuarded]_vars
    /\ [](run.stage = "running" => run.steps < MaxSteps)
    /\ (run.stage = "running" ~> RunOver)

\* A guarded backward jump was taken: the function is back at the label of
\* its loop with the counter above the one it was called with, and still
\* below max_counter.
C21_Witness_LoopTaken ==
    /\ run.stage = "running"
    /\ Len(run.frames) = 1
    /\ LET fr == run.frames[1]
           code == funcs[fr.f].code
       IN  /\ code[fr.ip].k = "label"
           /\ fr.counter > fr.counter_in
           /\ fr.counter < fr.max_counter
           /\ \E p \in fr.ip .. Len(code) :
                /\ code[p].k \in {"loop", "if_loop"}
                /\ (IF code[p].k = "loop" THEN code[p].a ELSE code[p].b) = code[fr.ip].a


(***************************************************************************)
(* Properties of the translator's locks (SpecThreads).                     *)
(***************************************************************************)

\* The threads that are inside dlopen / inside libtcc_compile.
InDlopen == {t \in Threads : th[t].pc = "dlopen"}

InLibtcc == {t \in Threads : th[t].pc = "libtcc_compile"}

\* C26: across all threads and all CPUs of the process, 32-bit and 64-bit
\* alike, at most one thread is inside the loader's dlopen call and at most
\* one thread is inside libtcc compilation at any time.
C26_OneThreadInside ==
    /\ Cardinality(InDlopen) <= 1
    /\ Cardinality(InLibtcc) <= 1

\* What does hold: the exclusion is per instantiation, among the threads
\* working for machines of the same width.
C26_OneThreadInsidePerWidth ==
    \A w \in Widths :
        /\ Cardinality({t \in InDlopen : th[t].W = w}) <= 1
        /\ Cardinality({t \in InLibtcc : th[t].W = w}) <= 1
        /\ \A t \in Threads : th[t].W = w =>
             /\ th[t].pc = "dlopen" <=> dlopen_mutex[w] = t
             /\ th[t].pc = "libtcc_compile" <=> libtcc_mutex[w] = t

\* A thread loading for a 32-bit machine and a thread loading for a 64-bit
\* machine are inside dlopen together, each holding the dlopen_mutex of its
\* instantiation.
C26_Witness_TwoInDlopen ==
    \E t, u \in Threads :
        /\ th[t].pc = "dlopen" /\ th[t].W = 4 /\ dlopen_mutex[4] = t
        /\ th[u].pc = "dlopen" /\ th[u].W = 8 /\ dlopen_mutex[8] = u

====
